---- MODULE Spec2Model ----
(***************************************************************************)
(* Model of the risk core of MatrixRiskEngine: the self-validating domain  *)
(* objects (Portfolio, StressScenario, RiskMetrics), the risk engine       *)
(* (OREAdapter), RiskCalculationService, StressTestingService and the      *)
(* rolling VaR backtest.                                                   *)
(*                                                                         *)
(* Numbers.  Python floats are modelled as exact rationals <<n, d>> in     *)
(* lowest terms with d > 0; <<0, 0>> is NaN.  The square root and the      *)
(* normal quantile of the parametric method are rounded to a fixed number  *)
(* of decimals (SqrtR, ZScore), and so is the natural logarithm (Log).     *)
(* Dicts are functions; a dict is iterated in the order of SymbolOrder.    *)
(* A price table (pandas DataFrame) is [index |-> sequence of row labels,  *)
(* columns |-> function from column name to a sequence of values].         *)
(***************************************************************************)
EXTENDS Integers, Sequences, FiniteSets, TLC

VARIABLES
    portfolio,      \* the caller's Portfolio object (engine / service / backtest)
    market_data,    \* the caller's price table, or the data port's store
    call,           \* the operation the caller invoked last, with its arguments
    result,         \* what that operation returned or raised
    backtest        \* backtest_var_model's loop: [pc, i, results, exc]

vars == <<portfolio, market_data, call, result, backtest>>

-----------------------------------------------------------------------------
(* Rational arithmetic standing for float arithmetic *)

Abs(x) == IF x < 0 THEN 0 - x ELSE x

RECURSIVE GCD(_, _)
GCD(a, b) == IF b = 0 THEN a ELSE GCD(b, a % b)

LCM(a, b) == (a \div GCD(a, b)) * b

NaN == <<0, 0>>

IsNaN(x) == x[2] = 0

Rat(n, d) ==
    LET g == GCD(Abs(n), Abs(d))
    IN  IF d < 0 THEN <<(0 - n) \div g, (0 - d) \div g>>
                 ELSE <<n \div g, d \div g>>

Zero == <<0, 1>>

One == <<1, 1>>

RAdd(x, y) ==
    IF IsNaN(x) \/ IsNaN(y) THEN NaN
    ELSE LET l == LCM(x[2], y[2])
         IN  Rat(x[1] * (l \div x[2]) + y[1] * (l \div y[2]), l)

RNeg(x) == IF IsNaN(x) THEN NaN ELSE <<0 - x[1], x[2]>>

RSub(x, y) == RAdd(x, RNeg(y))

RMul(x, y) ==
    IF IsNaN(x) \/ IsNaN(y) THEN NaN
    ELSE LET g1 == GCD(Abs(x[1]), y[2])
             g2 == GCD(Abs(y[1]), x[2])
         IN  Rat((x[1] \div g1) * (y[1] \div g2), (x[2] \div g2) * (y[2] \div g1))

\* x / y for y # 0 (the callers decide what a zero divisor raises)
RDiv(x, y) ==
    IF IsNaN(x) \/ IsNaN(y) THEN NaN
    ELSE RMul(x, IF y[1] < 0 THEN <<0 - y[2], 0 - y[1]>> ELSE <<y[2], y[1]>>)

RAbs(x) == IF IsNaN(x) THEN NaN ELSE <<Abs(x[1]), x[2]>>

\* the order of a/b and c/d (b, d > 0): -1, 0 or 1, found from the integer
\* parts and then the reciprocals of the fractional parts, so that no product
\* is formed
RECURSIVE CompareFrac(_, _, _, _)
CompareFrac(a, b, c, d) ==
    IF a \div b < c \div d THEN -1
    ELSE IF a \div b > c \div d THEN 1
    ELSE IF a % b = 0 /\ c % d = 0 THEN 0
    ELSE IF a % b = 0 THEN -1
    ELSE IF c % d = 0 THEN 1
    ELSE CompareFrac(d, c % d, b, a % b)

\* every comparison with NaN is False, as in Python
RLt(x, y) == ~IsNaN(x) /\ ~IsNaN(y) /\ CompareFrac(x[1], x[2], y[1], y[2]) < 0

RLeq(x, y) == ~IsNaN(x) /\ ~IsNaN(y) /\ CompareFrac(x[1], x[2], y[1], y[2]) <= 0

\* Python's max(a, b, c): the first argument stays unless a later one is greater
PyMax3(a, b, c) ==
    LET m == IF RLt(a, b) THEN b ELSE a
    IN  IF RLt(m, c) THEN c ELSE m

\* the iteration order of a dict's keys
SymbolOrder == <<"A", "B", "C", "SPX", "close", "equity_all", "rates">>

RECURSIVE KeysFrom(_, _)
KeysFrom(d, i) ==
    IF i > Len(SymbolOrder) THEN <<>>
    ELSE IF SymbolOrder[i] \in DOMAIN d
         THEN <<SymbolOrder[i]>> \o KeysFrom(d, i + 1)
         ELSE KeysFrom(d, i + 1)

Keys(d) == KeysFrom(d, 1)

\* sum(d.values()) of a dict of floats, starting from 0
RECURSIVE SumSeq(_, _)
SumSeq(d, ks) ==
    IF ks = <<>> THEN Zero
    ELSE RAdd(SumSeq(d, SubSeq(ks, 1, Len(ks) - 1)), d[ks[Len(ks)]])

SumValues(d) == SumSeq(d, Keys(d))

\* the empty dict
EmptyDict == [k \in {} |-> Zero]

\* what an operation hands back: a value, or an exception
Returned(v) == [status |-> "ok", value |-> v]

Raised(e, about) == [status |-> "raised", exc |-> e, about |-> about]

NoCall == [op |-> "none"]

NoResult == [status |-> "none"]

-----------------------------------------------------------------------------
(* Portfolio *)

WEIGHT_SUM_TOLERANCE == <<1, 1000000>>

\* Portfolio weights summing to something else than 1 or 0 pass the check
IsValidSumNoCheck(weight_sum) == TRUE

is_valid_sum(weight_sum) ==
    \/ RLt(RAbs(RSub(weight_sum, One)), WEIGHT_SUM_TOLERANCE)
    \/ RLt(RAbs(weight_sum), WEIGHT_SUM_TOLERANCE)

\* Portfolio.__post_init__ / _validate_invariants: the first violated invariant
PortfolioValidate(positions, weights, nav) ==
    IF DOMAIN positions # DOMAIN weights
    THEN Raised("ValueError", "same symbols")
    ELSE IF ~is_valid_sum(SumValues(weights))
    THEN Raised("ValueError", "sum to 1.0")
    ELSE IF RLt(nav, Zero)
    THEN Raised("ValueError", "non-negative")
    ELSE Returned([positions |-> positions, weights |-> weights, nav |-> nav])

\* Portfolio.from_weights: positions[symbol] = nav * weight / prices[symbol]
RECURSIVE FromWeightsLoop(_, _, _, _, _)
FromWeightsLoop(weights, nav, prices, ks, positions) ==
    IF ks = <<>> THEN PortfolioValidate(positions, weights, nav)
    ELSE LET symbol == Head(ks)
         IN  IF symbol \notin DOMAIN prices
             THEN Raised("ValueError", "Price not found")
             ELSE IF prices[symbol] = Zero
             THEN Raised("ZeroDivisionError", symbol)
             ELSE FromWeightsLoop(weights, nav, prices, Tail(ks),
                      [s \in DOMAIN positions \cup {symbol} |->
                          IF s = symbol
                          THEN RDiv(RMul(nav, weights[symbol]), prices[symbol])
                          ELSE positions[s]])

from_weights(weights, nav, prices) ==
    FromWeightsLoop(weights, nav, prices, Keys(weights), EmptyDict)

-----------------------------------------------------------------------------
(* StressScenario *)

MAX_SHOCK_MAGNITUDE == <<5, 1>>

Whitespace == {" ", "\t"}

\* str.strip(): a name is a sequence of characters
RECURSIVE LStrip(_)
LStrip(name) ==
    IF name # <<>> /\ Head(name) \in Whitespace THEN LStrip(Tail(name)) ELSE name

RECURSIVE RStrip(_)
RStrip(name) ==
    IF name # <<>> /\ name[Len(name)] \in Whitespace
    THEN RStrip(SubSeq(name, 1, Len(name) - 1))
    ELSE name

Strip(name) == RStrip(LStrip(name))

\* a shock of magnitude MAX_SHOCK_MAGNITUDE is rejected too
IsExtremeShockInclusive(shock) == RLeq(MAX_SHOCK_MAGNITUDE, RAbs(shock))

IsExtremeShock(shock) == RLt(MAX_SHOCK_MAGNITUDE, RAbs(shock))

extreme_shocks(shocks) == {factor \in DOMAIN shocks : IsExtremeShock(shocks[factor])}

\* StressScenario.__post_init__ / _validate_invariants
StressScenarioValidate(name, shocks, description) ==
    IF name = <<>> \/ Strip(name) = <<>>
    THEN Raised("ValueError", "name must not be empty")
    ELSE IF DOMAIN shocks = {}
    THEN Raised("ValueError", "at least one shock")
    ELSE IF extreme_shocks(shocks) # {}
    THEN Raised("ValueError", "extreme shocks")
    ELSE Returned([name |-> name, shocks |-> shocks, description |-> description])

\* StressScenario.from_dict: data is [name, shocks, description ("absent" when the
\* key is missing), date_calibrated: a date object ("date"), an ISO string ("iso")
\* or a string date.fromisoformat rejects ("bad")]
StressScenarioFromDict(data) ==
    IF data.date_calibrated = "bad"
    THEN Raised("ValueError", "Invalid isoformat string")
    ELSE StressScenarioValidate(data.name, data.shocks,
             IF data.description = "absent" THEN "" ELSE data.description)

-----------------------------------------------------------------------------
(* RiskMetrics *)

\* the 1e-6 of the CVaR/VaR tolerance
RELATIVE_TOLERANCE == <<1, 1000000>>

\* the tolerance is not scaled to the magnitude of the values
ExceedsFlatTolerance(var_val, cvar_val) ==
    RLt(RAdd(var_val, RELATIVE_TOLERANCE), cvar_val)

\* cvar_val > var_val + 1e-6 * max(abs(var_val), abs(cvar_val), 1.0); the
\* maximum is at least 1, so this is (cvar_val - var_val) / maximum > 1e-6
ExceedsTolerance(var_val, cvar_val) ==
    LET m == PyMax3(RAbs(var_val), RAbs(cvar_val), One)
    IN  RLt(RELATIVE_TOLERANCE, RDiv(RSub(cvar_val, var_val), m))

\* RiskMetrics.__post_init__ / _validate_invariants
RiskMetricsValidate(var, cvar, greeks) ==
    IF DOMAIN var # DOMAIN cvar
    THEN Raised("ValueError", "same confidence levels")
    ELSE IF \E level \in DOMAIN var : ExceedsTolerance(var[level], cvar[level])
    THEN Raised("ValueError", "CVaR must be <= VaR")
    ELSE Returned([var |-> var, cvar |-> cvar, greeks |-> greeks])

\* Greeks(): every sensitivity unset
NoGreeks == [g \in {} |-> Zero]

-----------------------------------------------------------------------------
(* The domain objects' constructors, called on inputs of every shape *)

MaxNameLen == 2

DictsOver(keys, vals) == UNION {[S -> vals] : S \in SUBSET keys}

RECURSIVE SeqsUpTo(_, _)
SeqsUpTo(S, n) ==
    IF n = 0 THEN {<<>>}
    ELSE LET shorter == SeqsUpTo(S, n - 1)
         IN  shorter \cup {Append(q, c) : q \in shorter, c \in S}

DomainWeightVals == {Zero, <<1, 2>>, One, <<1, 1000000>>, <<1, 2000000>>}

DomainNavVals == {<<-1, 1>>, Zero, <<100, 1>>}

DomainNames == SeqsUpTo({" ", "\t", "a"}, MaxNameLen)

DomainShockVals ==
    {<<-1, 2>>, <<5, 1>>, <<-5, 1>>, <<5000001, 1000000>>, <<-6, 1>>}

DomainRiskVals ==
    {<<-3, 1>>, <<-1499999, 500000>>, <<-749999, 250000>>, <<-1, 1>>,
     <<-999999, 1000000>>, <<-499999, 500000>>, Zero, One}

DomainLabels == {<<"", 95>>, <<"", 99>>}

NoPortfolio == [positions |-> EmptyDict, weights |-> EmptyDict, nav |-> Zero]

NoTable == [index |-> <<>>, columns |-> [c \in {} |-> <<>>]]

NoBacktest == [pc |-> "idle"]

InitDomain ==
    /\ portfolio = NoPortfolio
    /\ market_data = NoTable
    /\ call = NoCall
    /\ result = NoResult
    /\ backtest = NoBacktest

ConstructPortfolio ==
    /\ call = NoCall
    /\ \E positions \in DictsOver({"A", "B"}, {One, <<2, 1>>}),
          weights \in DictsOver({"A", "B"}, DomainWeightVals),
          nav \in DomainNavVals :
          /\ call' = [op |-> "Portfolio", positions |-> positions,
                      weights |-> weights, nav |-> nav]
          /\ result' = PortfolioValidate(positions, weights, nav)
    /\ UNCHANGED <<portfolio, market_data, backtest>>

PortfolioFromWeights ==
    /\ call = NoCall
    /\ \E weights \in DictsOver({"A", "B"}, DomainWeightVals),
          nav \in DomainNavVals,
          prices \in DictsOver({"A", "B"}, {Zero, <<2, 1>>}) :
          /\ call' = [op |-> "from_weights", weights |-> weights, nav |-> nav,
                      prices |-> prices]
          /\ result' = from_weights(weights, nav, prices)
    /\ UNCHANGED <<portfolio, market_data, backtest>>

ConstructStressScenario ==
    /\ call = NoCall
    /\ \E name \in DomainNames,
          shocks \in DictsOver({"A", "equity_all"}, DomainShockVals) :
          /\ call' = [op |-> "StressScenario", name |-> name, shocks |-> shocks]
          /\ result' = StressScenarioValidate(name, shocks, "text")
    /\ UNCHANGED <<portfolio, market_data, backtest>>

ScenarioFromDict ==
    /\ call = NoCall
    /\ \E name \in DomainNames,
          shocks \in DictsOver({"A", "equity_all"}, DomainShockVals),
          description \in {"absent", "text"},
          date_calibrated \in {"date", "iso", "bad"} :
          LET data == [name |-> name, shocks |-> shocks,
                       description |-> description,
                       date_calibrated |-> date_calibrated]
          IN  /\ call' = [op |-> "from_dict", name |-> name, shocks |-> shocks,
                          data |-> data]
              /\ result' = StressScenarioFromDict(data)
    /\ UNCHANGED <<portfolio, market_data, backtest>>

ConstructRiskMetrics ==
    /\ call = NoCall
    /\ \E var \in DictsOver(DomainLabels, DomainRiskVals),
          cvar \in DictsOver(DomainLabels, DomainRiskVals) :
          /\ call' = [op |-> "RiskMetrics", var |-> var, cvar |-> cvar]
          /\ result' = RiskMetricsValidate(var, cvar, NoGreeks)
    /\ UNCHANGED <<portfolio, market_data, backtest>>

\* the caller takes the result and is free to call again
Return ==
    /\ call # NoCall
    /\ call' = NoCall
    /\ result' = NoResult
    /\ UNCHANGED <<portfolio, market_data, backtest>>

NextDomain ==
    \/ ConstructPortfolio
    \/ PortfolioFromWeights
    \/ ConstructStressScenario
    \/ ScenarioFromDict
    \/ ConstructRiskMetrics
    \/ Return

SpecDomain == InitDomain /\ [][NextDomain]_vars

-----------------------------------------------------------------------------
(* The domain objects after construction: what Python lets a caller do to an *)
(* instance of a dataclass that is not frozen and to its dict fields         *)

\* obj.field = value on a dataclass declared without frozen=True: the
\* attribute is rebound and __post_init__ does not run again
SetAttr(obj, field, value) == [obj EXCEPT ![field] = value]

\* d[key] = value on a dict
SetItem(d, key, value) ==
    [k \in DOMAIN d \cup {key} |-> IF k = key THEN value ELSE d[k]]

\* the instances construction returns
ObjectPortfolios ==
    {PortfolioValidate(positions, weights, nav) :
        positions \in DictsOver({"A", "B"}, {One}),
        weights \in DictsOver({"A", "B"}, {<<1, 2>>, One}),
        nav \in {Zero, <<100, 1>>}}

ObjectScenarios ==
    {StressScenarioValidate(name, shocks, "text") :
        name \in {<<"a">>},
        shocks \in DictsOver({"A", "equity_all"}, {<<-1, 2>>, <<5, 1>>})}

ObjectMetrics ==
    {RiskMetricsValidate(var, cvar, NoGreeks) :
        var \in DictsOver(DomainLabels, {<<-1, 1>>}),
        cvar \in DictsOver(DomainLabels, {<<-3, 1>>, <<-1, 1>>})}

\* a caller holds an instance that its constructor returned
InitObjects ==
    /\ portfolio = NoPortfolio
    /\ market_data = NoTable
    /\ backtest = NoBacktest
    /\ \/ call = [op |-> "Portfolio"]
          /\ result \in {r \in ObjectPortfolios : r.status = "ok"}
       \/ call = [op |-> "StressScenario"]
          /\ result \in {r \in ObjectScenarios : r.status = "ok"}
       \/ call = [op |-> "RiskMetrics"]
          /\ result \in {r \in ObjectMetrics : r.status = "ok"}

\* portfolio.nav = value
AssignPortfolioField ==
    /\ call.op = "Portfolio"
    /\ \E value \in {<<-1, 1>>, Zero, <<100, 1>>} :
          result' = [result EXCEPT !.value = SetAttr(@, "nav", value)]
    /\ UNCHANGED <<portfolio, market_data, call, backtest>>

\* portfolio.positions[key] = value, portfolio.weights[key] = value
SetPortfolioEntry ==
    /\ call.op = "Portfolio"
    /\ \E field \in {"positions", "weights"}, key \in {"A", "B"},
          value \in {<<1, 2>>, One} :
          result' = [result EXCEPT
                        !.value = SetAttr(@, field, SetItem(@[field], key, value))]
    /\ UNCHANGED <<portfolio, market_data, call, backtest>>

\* scenario.name = value
AssignScenarioField ==
    /\ call.op = "StressScenario"
    /\ \E value \in {<<>>, <<"a">>} :
          result' = [result EXCEPT !.value = SetAttr(@, "name", value)]
    /\ UNCHANGED <<portfolio, market_data, call, backtest>>

\* scenario.shocks[key] = value
SetScenarioEntry ==
    /\ call.op = "StressScenario"
    /\ \E key \in {"A", "equity_all"}, value \in {<<-1, 2>>, <<-6, 1>>} :
          result' = [result EXCEPT
                        !.value = SetAttr(@, "shocks", SetItem(@.shocks, key, value))]
    /\ UNCHANGED <<portfolio, market_data, call, backtest>>

\* metrics.var = value, metrics.cvar = value
AssignMetricsField ==
    /\ call.op = "RiskMetrics"
    /\ \E field \in {"var", "cvar"},
          value \in DictsOver(DomainLabels, {<<-1, 1>>}) :
          result' = [result EXCEPT !.value = SetAttr(@, field, value)]
    /\ UNCHANGED <<portfolio, market_data, call, backtest>>

\* metrics.var[key] = value, metrics.cvar[key] = value
SetMetricsEntry ==
    /\ call.op = "RiskMetrics"
    /\ \E field \in {"var", "cvar"}, key \in DomainLabels,
          value \in {<<-3, 1>>, <<-1, 1>>, Zero} :
          result' = [result EXCEPT
                        !.value = SetAttr(@, field, SetItem(@[field], key, value))]
    /\ UNCHANGED <<portfolio, market_data, call, backtest>>

NextObjects ==
    \/ AssignPortfolioField
    \/ SetPortfolioEntry
    \/ AssignScenarioField
    \/ SetScenarioEntry
    \/ AssignMetricsField
    \/ SetMetricsEntry

SpecObjects == InitObjects /\ [][NextObjects]_vars

-----------------------------------------------------------------------------
(* OREAdapter: valuation and stress testing *)

Range(q) == {q[i] : i \in 1..Len(q)}

Columns(md) == DOMAIN md.columns

NumRows(md) == Len(md.index)

\* the position of a row label in the index
RowOf(md, label) == CHOOSE i \in 1..Len(md.index) : md.index[i] = label

\* OREAdapter.value_portfolio: the loop over portfolio.positions.items()
RECURSIVE ValueLoop(_, _, _, _)
ValueLoop(positions, md, ks, total_value) ==
    IF ks = <<>> THEN Returned(total_value)
    ELSE LET symbol == Head(ks)
         IN  IF symbol \notin Columns(md)
             THEN IF symbol \in Range(md.index)
                  THEN IF "close" \in Columns(md)
                       THEN ValueLoop(positions, md, Tail(ks),
                                RAdd(total_value,
                                     RMul(positions[symbol],
                                          md.columns["close"][RowOf(md, symbol)])))
                       ELSE Raised("KeyError", "close")
                  ELSE Raised("PricingError", symbol)
             ELSE IF NumRows(md) = 0
                  THEN Raised("IndexError", symbol)
                  ELSE ValueLoop(positions, md, Tail(ks),
                           RAdd(total_value,
                                RMul(positions[symbol],
                                     md.columns[symbol][NumRows(md)])))

\* a position symbol without market data is skipped, not reported
ValuePortfolioSkipping(p, md) ==
    LET held == [s \in DOMAIN p.positions \cap (Columns(md) \cup Range(md.index))
                    |-> p.positions[s]]
    IN  ValueLoop(held, md, Keys(held), Zero)

value_portfolio(p, md) == ValueLoop(p.positions, md, Keys(p.positions), Zero)

\* OREAdapter._calculate_npv: position symbols that are no column are skipped
RECURSIVE NpvLoop(_, _, _, _)
NpvLoop(positions, md, ks, npv) ==
    IF ks = <<>> THEN Returned(npv)
    ELSE LET symbol == Head(ks)
         IN  IF symbol \in Columns(md)
             THEN IF NumRows(md) = 0
                  THEN Raised("IndexError", symbol)
                  ELSE NpvLoop(positions, md, Tail(ks),
                           RAdd(npv, RMul(positions[symbol],
                                          md.columns[symbol][NumRows(md)])))
             ELSE NpvLoop(positions, md, Tail(ks), npv)

calculate_npv(p, md) == NpvLoop(p.positions, md, Keys(p.positions), Zero)

\* stressed[col] = stressed[col] * (1 + shock)
ScaleColumn(md, col, shock) ==
    [md EXCEPT !.columns[col] =
        [i \in 1..Len(md.columns[col]) |->
            RMul(md.columns[col][i], RAdd(One, shock))]]

RECURSIVE ScaleColumns(_, _, _)
ScaleColumns(md, cols, shock) ==
    IF cols = <<>> THEN md
    ELSE ScaleColumns(ScaleColumn(md, Head(cols), shock), Tail(cols), shock)

\* OREAdapter._apply_shocks: the loop over scenario.shocks.items()
RECURSIVE ShockLoop(_, _, _)
ShockLoop(stressed, shocks, ks) ==
    IF ks = <<>> THEN stressed
    ELSE LET risk_factor == Head(ks)
             shock == shocks[risk_factor]
         IN  IF risk_factor \in Columns(stressed)
             THEN ShockLoop(ScaleColumn(stressed, risk_factor, shock), shocks, Tail(ks))
             ELSE IF risk_factor = "equity_all"
             THEN ShockLoop(ScaleColumns(stressed, Keys(stressed.columns), shock),
                            shocks, Tail(ks))
             ELSE ShockLoop(stressed, shocks, Tail(ks))

\* the product of (1 + shock) over the keys
RECURSIVE FactorAll(_, _)
FactorAll(shocks, ks) ==
    IF ks = <<>> THEN One
    ELSE RMul(RAdd(One, shocks[Head(ks)]), FactorAll(shocks, Tail(ks)))

\* the sentinel is looked for before the columns
RECURSIVE SentinelFirstLoop(_, _, _)
SentinelFirstLoop(stressed, shocks, ks) ==
    IF ks = <<>> THEN stressed
    ELSE LET risk_factor == Head(ks)
             shock == shocks[risk_factor]
         IN  IF risk_factor = "equity_all"
             THEN SentinelFirstLoop(
                      ScaleColumns(stressed, Keys(stressed.columns), shock),
                      shocks, Tail(ks))
             ELSE IF risk_factor \in Columns(stressed)
             THEN SentinelFirstLoop(ScaleColumn(stressed, risk_factor, shock),
                                    shocks, Tail(ks))
             ELSE SentinelFirstLoop(stressed, shocks, Tail(ks))

ApplyShocksSentinelFirst(md, scenario) ==
    SentinelFirstLoop(md, scenario.shocks, Keys(scenario.shocks))

\* every shock is applied to every column
ApplyShocksToAll(md, scenario) ==
    SentinelFirstLoop(md, [k \in {"equity_all"} |->
                              RSub(FactorAll(scenario.shocks, Keys(scenario.shocks)), One)],
                      <<"equity_all">>)

apply_shocks(md, scenario) == ShockLoop(md, scenario.shocks, Keys(scenario.shocks))

\* the quotient is formed whatever base_npv is: over a zero base it is NaN
StressRowUnguarded(p, md, scenario, base_npv) ==
    LET stressed == calculate_npv(p, apply_shocks(md, scenario))
    IN  IF stressed.status = "ok"
        THEN LET pnl == RSub(stressed.value, base_npv)
             IN  [scenario |-> scenario.name, base_npv |-> base_npv,
                  stressed_npv |-> stressed.value, pnl |-> pnl,
                  pct_change |-> IF base_npv # Zero THEN RDiv(pnl, base_npv) ELSE NaN,
                  error |-> "none"]
        ELSE [scenario |-> scenario.name, base_npv |-> base_npv,
              stressed_npv |-> NaN, pnl |-> NaN, pct_change |-> NaN,
              error |-> stressed.exc]

\* pct_change is taken relative to the stressed NPV
StressRowOverStressed(p, md, scenario, base_npv) ==
    LET stressed == calculate_npv(p, apply_shocks(md, scenario))
    IN  IF stressed.status = "ok"
        THEN LET pnl == RSub(stressed.value, base_npv)
             IN  [scenario |-> scenario.name, base_npv |-> base_npv,
                  stressed_npv |-> stressed.value, pnl |-> pnl,
                  pct_change |-> IF stressed.value # Zero
                                 THEN RDiv(pnl, stressed.value) ELSE Zero,
                  error |-> "none"]
        ELSE [scenario |-> scenario.name, base_npv |-> base_npv,
              stressed_npv |-> NaN, pnl |-> NaN, pct_change |-> NaN,
              error |-> stressed.exc]

\* one row of stress_test's result (None is NaN in the DataFrame)
StressRow(p, md, scenario, base_npv) ==
    LET stressed == calculate_npv(p, apply_shocks(md, scenario))
    IN  IF stressed.status = "ok"
        THEN LET pnl == RSub(stressed.value, base_npv)
             IN  [scenario |-> scenario.name, base_npv |-> base_npv,
                  stressed_npv |-> stressed.value, pnl |-> pnl,
                  pct_change |-> IF base_npv # Zero THEN RDiv(pnl, base_npv) ELSE Zero,
                  error |-> "none"]
        ELSE [scenario |-> scenario.name, base_npv |-> base_npv,
              stressed_npv |-> NaN, pnl |-> NaN, pct_change |-> NaN,
              error |-> stressed.exc]

\* OREAdapter.stress_test: the base valuation is outside the try block
stress_test(p, md, scenarios) ==
    LET base == calculate_npv(p, md)
    IN  IF base.status # "ok" THEN base
        ELSE Returned([i \in 1..Len(scenarios) |->
                          StressRow(p, md, scenarios[i], base.value)])

-----------------------------------------------------------------------------
(* OREAdapter: portfolio returns, VaR and CVaR *)

\* the rows of a column that hold a price: Series.dropna()
RECURSIVE PricedRows(_, _)
PricedRows(col, i) ==
    IF i > Len(col) THEN <<>>
    ELSE IF IsNaN(col[i]) THEN PricedRows(col, i + 1)
    ELSE <<i>> \o PricedRows(col, i + 1)

\* prices.pct_change().dropna() as a function from row to return: defined on
\* every priced row but the first, each against the priced row before it
SymbolReturns(col) ==
    LET rows == PricedRows(col, 1)
    IN  [r \in {rows[k] : k \in 2..Len(rows)} |->
            LET k == CHOOSE j \in 2..Len(rows) : rows[j] = r
            IN  RSub(RDiv(col[r], col[rows[k - 1]]), One)]

\* the symbols whose returns enter returns_data
ReturnSymbols(weights, md) ==
    {s \in DOMAIN weights \cap Columns(md) : Len(PricedRows(md.columns[s], 1)) > 1}

\* every row is kept
TailRowsAll(rows, n) == rows

\* the last n elements of an ascending sequence of rows: DataFrame.tail(n)
TailRows(rows, n) ==
    IF Len(rows) <= n THEN rows ELSE SubSeq(rows, Len(rows) - n + 1, Len(rows))

RECURSIVE AscendingRows(_, _, _)
AscendingRows(S, i, n) ==
    IF i > n THEN <<>>
    ELSE IF i \in S THEN <<i>> \o AscendingRows(S, i + 1, n)
    ELSE AscendingRows(S, i + 1, n)

\* the weighted sum over one row, NaN cells skipped: .sum(axis=1)
RECURSIVE WeightedRow(_, _, _, _)
WeightedRow(rets, weights, ks, r) ==
    IF ks = <<>> THEN Zero
    ELSE LET s == Head(ks)
             rest == WeightedRow(rets, weights, Tail(ks), r)
         IN  IF r \in DOMAIN rets[s]
             THEN RAdd(RMul(rets[s][r], weights[s]), rest)
             ELSE rest

\* OREAdapter._calculate_portfolio_returns
calculate_portfolio_returns(p, md, window_days) ==
    LET syms == ReturnSymbols(p.weights, md)
        rets == [s \in syms |-> SymbolReturns(md.columns[s])]
        rows == TailRows(
                    AscendingRows(UNION {DOMAIN rets[s] : s \in syms}, 1, NumRows(md)),
                    window_days)
    IN  [k \in 1..Len(rows) |->
            WeightedRow(rets, p.weights, Keys(rets), rows[k])]

\* ascending order
RECURSIVE Insert(_, _)
Insert(sorted, x) ==
    IF sorted = <<>> THEN <<x>>
    ELSE IF RLeq(x, Head(sorted)) THEN <<x>> \o sorted
    ELSE <<Head(sorted)>> \o Insert(Tail(sorted), x)

RECURSIVE Sort(_)
Sort(xs) == IF xs = <<>> THEN <<>> ELSE Insert(Sort(Tail(xs)), Head(xs))

\* np.percentile(xs, 100 * frac), linear interpolation between order statistics
Percentile(xs, frac) ==
    IF xs = <<>> THEN NaN
    ELSE LET sorted == Sort(xs)
             h == RMul(<<Len(xs) - 1, 1>>, frac)
             lo == h[1] \div h[2]
             hi == IF lo + 2 <= Len(xs) THEN lo + 1 ELSE lo
         IN  RAdd(sorted[lo + 1],
                  RMul(RSub(h, <<lo, 1>>), RSub(sorted[hi + 1], sorted[lo + 1])))

RECURSIVE SumOf(_)
SumOf(xs) == IF xs = <<>> THEN Zero ELSE RAdd(Head(xs), SumOf(Tail(xs)))

\* Series.mean()
Mean(xs) == IF xs = <<>> THEN NaN ELSE RDiv(SumOf(xs), <<Len(xs), 1>>)

\* the largest r with r * r <= n
RECURSIVE ISqrtBetween(_, _, _)
ISqrtBetween(n, lo, hi) ==
    IF lo >= hi THEN lo
    ELSE LET mid == (lo + hi + 1) \div 2
         IN  IF mid * mid <= n THEN ISqrtBetween(n, mid, hi)
             ELSE ISqrtBetween(n, lo, mid - 1)

ISqrt(n) == ISqrtBetween(n, 0, IF n < 46340 THEN n ELSE 46340)

\* the square root, rounded down to 1/SqrtScale
SqrtScale == 100

SqrtR(x) ==
    IF IsNaN(x) THEN NaN
    ELSE Rat(ISqrt((x[1] * SqrtScale * SqrtScale) \div x[2]), SqrtScale)

\* Series.std(): the sample standard deviation (ddof = 1), NaN for one value
Std(xs) ==
    IF Len(xs) < 2 THEN NaN
    ELSE LET mu == Mean(xs)
             squares == [k \in 1..Len(xs) |-> RMul(RSub(xs[k], mu), RSub(xs[k], mu))]
         IN  SqrtR(RDiv(SumOf(squares), <<Len(xs) - 1, 1>>))

\* scipy.stats.norm.ppf(1 - level) to four decimals, for the levels in use
ZScore(level) ==
    CASE level = <<19, 20>>   -> <<-16449, 10000>>
      [] level = <<99, 100>>  -> <<-23263, 10000>>
      [] level = <<191, 200>> -> <<-16954, 10000>>
      [] level = <<9, 10>>    -> <<-12816, 10000>>
      [] level = <<1, 10>>    -> <<12816, 10000>>
      [] level = <<1, 2>>     -> Zero
      [] OTHER                -> NaN

\* f"{int(level * 100)}%": the label is kept as <<prefix, percent>>, the prefix
\* empty here and the method name in RiskCalculationService's merged keys
\* int(level * 100): for the levels used here the float product truncates to
\* the exact percent
Percent(level) == (level[1] * 100) \div level[2]

Label(level) == <<"", Percent(level)>>

\* 0 and 1 pass as confidence levels
InvalidLevelInclusive(level) == ~(RLeq(Zero, level) /\ RLeq(level, One))

\* not 0 < level < 1
InvalidLevel(level) == ~(RLt(Zero, level) /\ RLt(level, One))

\* the percentile is taken at the confidence level itself
HistoricalVaRUpper(xs, level) == Percentile(xs, level)

HistoricalVaR(xs, level) == Percentile(xs, RSub(One, level))

ParametricVaR(xs, level) == RAdd(Mean(xs), RMul(ZScore(level), Std(xs)))

\* the mean of the returns at or below the VaR threshold
TailMean(xs, level) ==
    LET var_threshold == Percentile(xs, RSub(One, level))
        tail_returns == SelectSeq(xs, LAMBDA x : RLeq(x, var_threshold))
    IN  IF Len(tail_returns) > 0 THEN Mean(tail_returns) ELSE var_threshold

\* the value one pass of a level loop computes before it is scaled by the NAV
LevelValue(kind, xs, level) ==
    CASE kind = "historical" -> HistoricalVaR(xs, level)
      [] kind = "parametric" -> ParametricVaR(xs, level)
      [] kind = "cvar"       -> TailMean(xs, level)

\* the result dict after the loop over the levels: a later level with the same
\* label replaces the earlier entry
RECURSIVE LevelDict(_, _, _, _)
LevelDict(levels, xs, nav, kind) ==
    IF levels = <<>> THEN [l \in {} |-> Zero]
    ELSE LET front == LevelDict(SubSeq(levels, 1, Len(levels) - 1), xs, nav, kind)
             last == levels[Len(levels)]
         IN  [l \in DOMAIN front \cup {Label(last)} |->
                 IF l = Label(last)
                 THEN RMul(LevelValue(kind, xs, last), nav)
                 ELSE front[l]]

\* a history of exactly window_days returns is refused too
InsufficientDataInclusive(portfolio_returns, window_days) ==
    Len(portfolio_returns) <= window_days

\* len(portfolio_returns) < window_days
InsufficientData(portfolio_returns, window_days) ==
    Len(portfolio_returns) < window_days

\* OREAdapter.calculate_var
calculate_var(p, md, method, confidence_levels, window_days) ==
    IF \E i \in 1..Len(confidence_levels) : InvalidLevel(confidence_levels[i])
    THEN Raised("ValueError", "Confidence level must be in (0, 1)")
    ELSE LET portfolio_returns == calculate_portfolio_returns(p, md, window_days)
         IN  IF InsufficientData(portfolio_returns, window_days)
             THEN Raised("InsufficientDataError",
                         [required_days |-> window_days,
                          available_days |-> Len(portfolio_returns)])
             ELSE IF method = "historical"
             THEN Returned(LevelDict(confidence_levels, portfolio_returns, p.nav,
                                     "historical"))
             ELSE IF method = "parametric"
             THEN Returned(LevelDict(confidence_levels, portfolio_returns, p.nav,
                                     "parametric"))
             ELSE Raised("ValueError", "Unknown VaR method")

\* OREAdapter.calculate_cvar: var_params is [method, confidence_levels,
\* window_days]; the method is read and not used, and np.percentile raises
\* ValueError for a percentile outside [0, 100]
calculate_cvar(p, md, var_params) ==
    LET confidence_levels == var_params.confidence_levels
        window_days == var_params.window_days
        portfolio_returns == calculate_portfolio_returns(p, md, window_days)
    IN  IF InsufficientData(portfolio_returns, window_days)
        THEN Raised("InsufficientDataError",
                    [required_days |-> window_days,
                     available_days |-> Len(portfolio_returns)])
        ELSE IF \E i \in 1..Len(confidence_levels) :
                    \/ RLt(confidence_levels[i], Zero)
                    \/ RLt(One, confidence_levels[i])
        THEN Raised("ValueError", "Percentiles must be in the range [0, 100]")
        ELSE Returned(LevelDict(confidence_levels, portfolio_returns, p.nav, "cvar"))

-----------------------------------------------------------------------------
(* The engine called on a caller's portfolio and price table *)

MaxRows == 3

MaxStressRows == 2

MaxScenarios == 2

DateLabels == <<"d1", "d2", "d3", "d4", "d5", "d6">>

PriceVals == {One, <<2, 1>>}

\* date-indexed tables, one column per symbol
PriceTables(n, cols) ==
    {[index |-> SubSeq(DateLabels, 1, n), columns |-> c] :
        c \in [cols -> [1..n -> PriceVals]]}

\* date-indexed tables whose column B has no price in its second row
GapTables(n) ==
    {[index |-> SubSeq(DateLabels, 1, n),
      columns |-> [s \in {"A", "B"} |->
                     IF s = "A" THEN a
                     ELSE [i \in 1..n |-> IF i = 2 THEN NaN ELSE <<i, 1>>]]] :
        a \in [1..n -> PriceVals]}

\* tables with one row per symbol and a "close" column
CloseTables ==
    UNION {{[index |-> idx, columns |-> [c \in {"close"} |-> px]] :
               px \in [1..Len(idx) -> PriceVals]} :
           idx \in {<<"A">>, <<"C">>, <<"A", "C">>}}

ValidPortfolios(symbolSets, positionVals, weightVals, navVals) ==
    {PortfolioValidate(positions, weights, nav).value :
        <<positions, weights, nav>> \in
            {t \in UNION {[S -> positionVals] \X [S -> weightVals] \X navVals :
                             S \in symbolSets} :
                PortfolioValidate(t[1], t[2], t[3]).status = "ok"}}

VaRPortfolios ==
    ValidPortfolios({{}, {"A"}, {"A", "B"}, {"A", "C"}}, {One},
                    {<<1, 2>>, One}, {Zero, <<100, 1>>})

VaRTables ==
    UNION {PriceTables(n, cols) : n \in 1..MaxRows, cols \in {{}, {"A"}}}
    \cup UNION {PriceTables(n, {"A", "B"}) : n \in 1..(MaxRows - 1)}
    \cup GapTables(MaxRows)

VaRMethods == {"historical", "parametric", "montecarlo"}

LevelLists ==
    {<<<<19, 20>>>>, <<<<19, 20>>, <<99, 100>>>>, <<<<1, 2>>>>, <<<<3, 2>>>>,
     <<Zero>>, <<<<19, 20>>, One>>, <<<<19, 20>>, <<191, 200>>>>,
     <<<<1, 10>>, <<9, 10>>>>}

InitVaR ==
    /\ portfolio \in VaRPortfolios
    /\ market_data \in VaRTables
    /\ call = NoCall
    /\ result = NoResult
    /\ backtest = NoBacktest

CalculateVaR ==
    /\ call = NoCall
    /\ \E method \in VaRMethods, confidence_levels \in LevelLists,
          window_days \in 1..MaxRows :
          /\ call' = [op |-> "calculate_var", method |-> method,
                      confidence_levels |-> confidence_levels,
                      window_days |-> window_days]
          /\ result' = calculate_var(portfolio, market_data, method,
                                     confidence_levels, window_days)
    /\ UNCHANGED <<portfolio, market_data, backtest>>

CalculateCVaR ==
    /\ call = NoCall
    /\ \E method \in VaRMethods, confidence_levels \in LevelLists,
          window_days \in 1..MaxRows :
          /\ call' = [op |-> "calculate_cvar", method |-> method,
                      confidence_levels |-> confidence_levels,
                      window_days |-> window_days]
          /\ result' = calculate_cvar(portfolio, market_data,
                           [method |-> method,
                            confidence_levels |-> confidence_levels,
                            window_days |-> window_days])
    /\ UNCHANGED <<portfolio, market_data, backtest>>

NextVaR == CalculateVaR \/ CalculateCVaR \/ Return

SpecVaR == InitVaR /\ [][NextVaR]_vars

StressPortfolios ==
    ValidPortfolios({S \in SUBSET {"A", "B", "C"} : Cardinality(S) <= 2},
                    {One, <<2, 1>>}, {<<1, 2>>, One}, {<<100, 1>>})

StressTables ==
    UNION {PriceTables(n, cols) : n \in 0..MaxStressRows, cols \in {{}, {"A"}}}
    \cup PriceTables(0, {"A", "B"}) \cup PriceTables(1, {"A", "B"})
    \cup PriceTables(1, {"A", "equity_all"})
    \cup CloseTables

StressShocks ==
    {[f \in {"A"} |-> <<-1, 2>>], [f \in {"equity_all"} |-> <<-1, 10>>],
     [f \in {"equity_all"} |-> <<-1, 5>>], [f \in {"rates"} |-> <<1, 100>>],
     [f \in {"A", "C"} |-> One], [f \in {"A", "equity_all"} |-> Zero]}

StressScenarios ==
    {StressScenarioValidate(<<"s">>, shocks, "").value : shocks \in StressShocks}

ScenarioLists == UNION {[1..n -> StressScenarios] : n \in 0..MaxScenarios}

InitStress ==
    /\ portfolio \in StressPortfolios
    /\ market_data \in StressTables
    /\ call = NoCall
    /\ result = NoResult
    /\ backtest = NoBacktest

ValuePortfolio ==
    /\ call = NoCall
    /\ call' = [op |-> "value_portfolio"]
    /\ result' = value_portfolio(portfolio, market_data)
    /\ UNCHANGED <<portfolio, market_data, backtest>>

StressTest ==
    /\ call = NoCall
    /\ \E scenarios \in ScenarioLists :
          /\ call' = [op |-> "stress_test", scenarios |-> scenarios]
          /\ result' = stress_test(portfolio, market_data, scenarios)
    /\ UNCHANGED <<portfolio, market_data, backtest>>

NextStress == ValuePortfolio \/ StressTest \/ Return

SpecStress == InitStress /\ [][NextStress]_vars

-----------------------------------------------------------------------------
(* scripts/var_backtest.py: the rolling VaR backtest *)

MaxHistory == 4

MaxLookback == 2

\* market_data.iloc[lo:hi], rows counted from 0 and hi excluded
ILocRows(md, lo, hi) ==
    [index |-> SubSeq(md.index, lo + 1, hi),
     columns |-> [s \in Columns(md) |-> SubSeq(md.columns[s], lo + 1, hi)]]

\* the equal-weight portfolio built for one test day
EqualWeightPortfolio(symbols, nav) ==
    LET weights == [s \in symbols |-> Rat(1, Cardinality(symbols))]
        positions == [s \in symbols |-> RMul(nav, weights[s])]
    IN  PortfolioValidate(positions, weights, nav)

\* nav * (tomorrow_prices / today_prices - 1).mean() for day i
ActualPnl(md, i, nav) ==
    LET ks == Keys(md.columns)
        daily_returns == [k \in 1..Len(ks) |->
                             RSub(RDiv(md.columns[ks[k]][i + 2],
                                       md.columns[ks[k]][i + 1]), One)]
    IN  RMul(nav, Mean(daily_returns))

\* the tally starts one pair late
TransitionsSkipping(breaches, before, after) ==
    Cardinality({i \in 3..Len(breaches) :
                    breaches[i - 1] = before /\ breaches[i] = after})

\* the tallies of consecutive (no-breach, breach) pairs: n00, n01, n10, n11
Transitions(breaches, before, after) ==
    Cardinality({i \in 2..Len(breaches) :
                    breaches[i - 1] = before /\ breaches[i] = after})

\* the digits np.log is kept to
LogScale == 10000

\* ln 2 in units of 1 / LogScale
LN2 == 6931

\* 2 * atanh(z) in units of 1 / LogScale, for z in units of 1 / LogScale and
\* z2 = z * z: ln(m) for m = (1 + z) / (1 - z)
AtanhSeries(z, z2) ==
    LET t3 == (z * z2) \div LogScale
        t5 == (t3 * z2) \div LogScale
        t7 == (t5 * z2) \div LogScale
    IN  2 * (z + t3 \div 3 + t5 \div 5 + t7 \div 7)

\* ln(r) in units of 1 / LogScale for a rational r >= 1: halve r down to [1, 2)
RECURSIVE LogUnits(_)
LogUnits(r) ==
    IF RLeq(Rat(2, 1), r) THEN LN2 + LogUnits(RDiv(r, Rat(2, 1)))
    ELSE LET z == (RDiv(RSub(r, One), RAdd(r, One))[1] * LogScale)
                     \div RDiv(RSub(r, One), RAdd(r, One))[2]
         IN  AtanhSeries(z, (z * z) \div LogScale)

\* np.log of a positive rational
Log(r) ==
    IF RLeq(One, r) THEN Rat(LogUnits(r), LogScale)
    ELSE Rat(0 - LogUnits(RDiv(One, r)), LogScale)

\* the Kupiec statistic for x breaches in n days, 0 < x < n:
\* -2 * (x * log(p / (x / n)) + (n - x) * log((1 - p) / (1 - x / n)))
KupiecLR(x, n, p) ==
    RMul(Rat(-2, 1),
         RAdd(RMul(Rat(x, 1), Log(RDiv(p, Rat(x, n)))),
              RMul(Rat(n - x, 1), Log(RDiv(RSub(One, p), RSub(One, Rat(x, n)))))))

\* Chi-squared(1) at 95%
CRITICAL_VALUE_95 == <<96, 25>>

\* a Python bool where None may stand as well
PyBool(b) == IF b THEN "True" ELSE "False"

\* the "kupiec_test" entry of the returned dict
KupiecTest(lr_pof) ==
    [lr_statistic |-> lr_pof,
     reject_at_95 |-> IF ~IsNaN(lr_pof) THEN PyBool(RLt(CRITICAL_VALUE_95, lr_pof))
                      ELSE "None",
     model_valid_95 |-> IF ~IsNaN(lr_pof) THEN PyBool(RLeq(lr_pof, CRITICAL_VALUE_95))
                        ELSE "None"]

\* the statistics computed after the loop; the results frame of an empty loop
\* has no "breached" column
Statistics(results, c) ==
    IF results = <<>> THEN Raised("KeyError", "breached")
    ELSE LET n == Len(results)
             breaches == [i \in 1..n |-> results[i].breached]
             x == Cardinality({i \in 1..n : breaches[i]})
             p == RSub(One, c.confidence_level)
         IN  Returned([total_days |-> n,
                       num_breaches |-> x,
                       breach_rate |-> Rat(x, n),
                       expected_breach_rate |-> p,
                       kupiec_test |-> KupiecTest(IF 0 < x /\ x < n
                                                  THEN KupiecLR(x, n, p) ELSE NaN),
                       n00 |-> Transitions(breaches, FALSE, FALSE),
                       n01 |-> Transitions(breaches, FALSE, TRUE),
                       n10 |-> Transitions(breaches, TRUE, FALSE),
                       n11 |-> Transitions(breaches, TRUE, TRUE),
                       results |-> results])

\* main's exit code: 0 if result["kupiec_test"]["model_valid_95"] is truthy
ExitCode(statistics) ==
    IF statistics.kupiec_test.model_valid_95 = "True" THEN 0 ELSE 1

BacktestHistories ==
    UNION {PriceTables(n, {"A"}) : n \in 1..MaxHistory}
    \cup {[index |-> t.index,
           columns |-> [s \in {"A", "B"} |->
                           IF s = "A" THEN t.columns["A"]
                           ELSE [i \in 1..Len(t.index) |-> One]]] :
             t \in UNION {PriceTables(n, {"A"}) : n \in 1..MaxHistory}}

InitBacktest ==
    /\ portfolio = NoPortfolio
    /\ market_data \in BacktestHistories
    /\ call = NoCall
    /\ result = NoResult
    /\ backtest = NoBacktest

\* backtest_var_model up to the loop: the banner reads dates[lookback_days]
\* and dates[-2]
BacktestStart ==
    /\ backtest.pc = "idle"
    /\ \E confidence_level \in {<<19, 20>>, <<1, 2>>},
          lookback_days \in 1..MaxLookback :
          /\ call' = [op |-> "backtest_var_model",
                      confidence_level |-> confidence_level,
                      lookback_days |-> lookback_days,
                      nav |-> <<100, 1>>]
          /\ IF lookback_days >= NumRows(market_data) \/ NumRows(market_data) < 2
             THEN /\ result' = Raised("IndexError", "dates")
                  /\ backtest' = [pc |-> "done"]
             ELSE /\ result' = NoResult
                  /\ backtest' = [pc |-> "loop", i |-> lookback_days,
                                  results |-> <<>>]
    /\ UNCHANGED <<portfolio, market_data>>

\* one pass of the loop over range(lookback_days, len(dates) - 1)
BacktestDay ==
    /\ backtest.pc = "loop"
    /\ backtest.i < NumRows(market_data) - 1
    /\ LET i == backtest.i
           built == EqualWeightPortfolio(Columns(market_data), call.nav)
           historical_data == ILocRows(market_data, i - call.lookback_days, i)
       IN  IF built.status # "ok"
           THEN /\ result' = built
                /\ backtest' = [pc |-> "done"]
                /\ UNCHANGED portfolio
           ELSE LET var_result == calculate_var(built.value, historical_data,
                                      "historical", <<call.confidence_level>>,
                                      call.lookback_days)
                IN  /\ portfolio' = built.value
                    /\ IF var_result.status # "ok"
                       THEN /\ result' = var_result
                            /\ backtest' = [pc |-> "done"]
                       ELSE LET predicted_var ==
                                    var_result.value[Label(call.confidence_level)]
                                actual_pnl == ActualPnl(market_data, i, call.nav)
                            IN  /\ result' = result
                                /\ backtest' =
                                     [backtest EXCEPT
                                        !.i = i + 1,
                                        !.results = Append(@,
                                           [date |-> market_data.index[i + 1],
                                            predicted_var |-> predicted_var,
                                            actual_pnl |-> actual_pnl,
                                            breached |-> RLt(actual_pnl, predicted_var)])]
    /\ UNCHANGED <<market_data, call>>

\* the loop is over: the statistics and the returned dict
BacktestFinish ==
    /\ backtest.pc = "loop"
    /\ backtest.i >= NumRows(market_data) - 1
    /\ result' = Statistics(backtest.results, call)
    /\ backtest' = [pc |-> "done"]
    /\ UNCHANGED <<portfolio, market_data, call>>

\* the caller has the result or the exception
BacktestReturn ==
    /\ backtest.pc = "done"
    /\ backtest' = NoBacktest
    /\ call' = NoCall
    /\ result' = NoResult
    /\ portfolio' = NoPortfolio
    /\ UNCHANGED market_data

NextBacktest == BacktestStart \/ BacktestDay \/ BacktestFinish \/ BacktestReturn

SpecBacktest == InitBacktest /\ [][NextBacktest]_vars

-----------------------------------------------------------------------------
(* scripts/var_backtest.py: the statistics of a finished loop and main's exit *)

MaxTestDays == 4

\* the rows the loop gathers: breached is actual_pnl < predicted_var
TestRows ==
    {[date |-> d, predicted_var |-> <<-1, 1>>, actual_pnl |-> pnl,
      breached |-> RLt(pnl, <<-1, 1>>)] :
        d \in {"d1"}, pnl \in {<<-2, 1>>, Zero}}

TestResults ==
    UNION {{[i \in 1..n |-> [rows[i] EXCEPT !.date = DateLabels[i]]] :
               rows \in [1..n -> TestRows]} : n \in 0..MaxTestDays}

\* the loop of backtest_var_model is over with these results
InitStatistics ==
    /\ portfolio = NoPortfolio
    /\ market_data = NoTable
    /\ \E confidence_level \in {<<19, 20>>, <<1, 2>>} :
          call = [op |-> "backtest_var_model",
                  confidence_level |-> confidence_level,
                  lookback_days |-> 1, nav |-> <<100, 1>>]
    /\ result = NoResult
    /\ \E results \in TestResults :
          backtest = [pc |-> "statistics", results |-> results]

\* backtest_var_model after the loop: the statistics and the returned dict
ComputeStatistics ==
    /\ backtest.pc = "statistics"
    /\ result' = Statistics(backtest.results, call)
    /\ backtest' = [pc |-> "returned"]
    /\ UNCHANGED <<portfolio, market_data, call>>

\* main after backtest_var_model: the exit code; an exception leaves the
\* interpreter with status 1
MainExit ==
    /\ backtest.pc = "returned"
    /\ backtest' = [pc |-> "exited",
                    exit_code |-> IF result.status = "ok"
                                  THEN ExitCode(result.value) ELSE 1]
    /\ UNCHANGED <<portfolio, market_data, call, result>>

NextStatistics == ComputeStatistics \/ MainExit

SpecStatistics == InitStatistics /\ [][NextStatistics]_vars

-----------------------------------------------------------------------------
(* RiskCalculationService *)

\* Python's None in a dict of floats, and a float in such a dict
PyNone == [is_none |-> TRUE]

Some(v) == [value |-> v]

GreekNames == {"delta", "gamma", "vega", "theta", "rho", "duration", "convexity"}

\* delta comes from the positions
ComputeGreeksFromPositions(p, md) ==
    [g \in GreekNames |->
        IF g = "delta" THEN Some(SumValues(p.positions))
        ELSE IF g \in {"gamma", "vega"} THEN Some(Zero)
        ELSE PyNone]

\* OREAdapter.compute_greeks
compute_greeks(p, md) ==
    [g \in GreekNames |->
        IF g = "delta" THEN Some(SumValues(p.weights))
        ELSE IF g \in {"gamma", "vega"} THEN Some(Zero)
        ELSE PyNone]

\* {k: v for k, v in greeks_dict.items() if v is not None}
SetGreeks(greeks_dict) ==
    [g \in {k \in DOMAIN greeks_dict : greeks_dict[k] # PyNone} |->
        greeks_dict[g].value]

\* the failure is not caught
GreeksStepUncaught(request, greeks_answer) ==
    IF ~request.compute_greeks
    THEN Returned([greeks |-> NoGreeks, warnings |-> <<>>])
    ELSE IF greeks_answer.status = "ok"
    THEN Returned([greeks |-> SetGreeks(greeks_answer.value), warnings |-> <<>>])
    ELSE greeks_answer

\* step 4 of calculate, given what the risk port's compute_greeks answered:
\* an exception of the port is caught and recorded as a warning
GreeksStep(request, greeks_answer) ==
    IF ~request.compute_greeks
    THEN Returned([greeks |-> NoGreeks, warnings |-> <<>>])
    ELSE IF greeks_answer.status = "ok"
    THEN Returned([greeks |-> SetGreeks(greeks_answer.value), warnings |-> <<>>])
    ELSE Returned([greeks |-> NoGreeks,
                   warnings |-> <<[kind |-> "Greeks computation failed",
                                   about |-> greeks_answer.exc]>>])

\* Series.ffill(): a missing price takes the last price before it
FFillColumn(col) ==
    [i \in 1..Len(col) |->
        IF \E j \in 1..i : ~IsNaN(col[j])
        THEN col[CHOOSE j \in 1..i :
                    /\ ~IsNaN(col[j])
                    /\ \A k \in (j + 1)..i : IsNaN(col[k])]
        ELSE NaN]

\* an empty load is handed on as a table without columns
LoadMarketDataUnchecked(p, store) ==
    Returned([index |-> store.index,
              columns |-> [s \in DOMAIN p.positions \cap Columns(store) |->
                              FFillColumn(store.columns[s])]])

\* RiskCalculationService._load_market_data: the data port holds one close
\* series per column of store, on shared dates; loading any other symbol fails
\* and the symbol is skipped
load_market_data(p, store) ==
    LET price_data == DOMAIN p.positions \cap Columns(store)
    IN  IF price_data = {}
        THEN Raised("ValueError", "No market data loaded for any portfolio symbol")
        ELSE Returned([index |-> store.index,
                       columns |-> [s \in price_data |-> FFillColumn(store.columns[s])]])

\* var_results after one method's VaR is merged in: under a method prefix when
\* several methods are requested, in place of var_results otherwise
MergedVaR(request, method, method_var, var_results) ==
    IF Len(request.methods) > 1
    THEN LET prefixed == {<<method, level[2]>> : level \in DOMAIN method_var}
         IN  [k \in DOMAIN var_results \cup prefixed |->
                 IF k \in prefixed THEN method_var[<<"", k[2]>>]
                 ELSE var_results[k]]
    ELSE method_var

\* the loop over the methods; an exception of calculate_var ends it
RECURSIVE MergeVaR(_, _, _, _, _)
RECURSIVE MergeNext(_, _, _, _, _, _)
MergeNext(p, md, request, methods, var_results, method_var) ==
    IF method_var.status # "ok" THEN method_var
    ELSE MergeVaR(p, md, request, Tail(methods),
                  MergedVaR(request, Head(methods), method_var.value, var_results))

MergeVaR(p, md, request, methods, var_results) ==
    IF methods = <<>> THEN Returned(var_results)
    ELSE MergeNext(p, md, request, methods, var_results,
                   calculate_var(p, md, Head(methods), request.confidence_levels,
                                 request.window_days))

\* the RiskMetrics built from the results, and the response around it
BuildResponse(metrics, warnings) ==
    IF metrics.status # "ok" THEN metrics
    ELSE Returned([metrics |-> metrics.value, report_path |-> "none",
                   warnings |-> warnings])

\* steps 2 to 4 on the loaded market data
CalculateSteps(var_results, cvar_results, greeks_step) ==
    IF var_results.status # "ok" THEN var_results
    ELSE IF cvar_results.status # "ok" THEN cvar_results
    ELSE IF greeks_step.status # "ok" THEN greeks_step
    ELSE BuildResponse(RiskMetricsValidate(var_results.value, cvar_results.value,
                                           greeks_step.value.greeks),
                       greeks_step.value.warnings)

\* what the risk port's compute_greeks answers: OREAdapter's dict, or the
\* exception of a port whose compute_greeks fails
GreeksAnswer(p, md, request) ==
    IF request.greeks_raise THEN Raised("RuntimeError", "compute_greeks")
    ELSE Returned(compute_greeks(p, md))

CalculateLoaded(p, loaded, request) ==
    IF loaded.status # "ok" THEN loaded
    ELSE CalculateSteps(
             MergeVaR(p, loaded.value, request, request.methods, EmptyDict),
             calculate_cvar(p, loaded.value,
                 [method |-> request.methods[1],
                  confidence_levels |-> request.confidence_levels,
                  window_days |-> request.window_days]),
             GreeksStep(request, GreeksAnswer(p, loaded.value, request)))

\* RiskCalculationService.calculate, the service built without a report port;
\* request is [methods, confidence_levels, window_days, compute_greeks] after
\* the defaults are filled in, and greeks_raise: whether the risk port's
\* compute_greeks raises
calculate(p, store, request) ==
    CalculateLoaded(p, load_market_data(p, store), request)

MaxStoreRows == 3

ServiceStores ==
    UNION {PriceTables(n, {"A"}) \cup GapTables(n) : n \in 1..MaxStoreRows}
    \cup PriceTables(1, {})

MethodLists ==
    {<<>>, <<"historical">>, <<"parametric">>, <<"historical", "parametric">>,
     <<"parametric", "historical">>}

ServiceLevelLists == {<<>>, <<<<19, 20>>>>, <<<<19, 20>>, <<99, 100>>>>}

InitService ==
    /\ portfolio \in VaRPortfolios
    /\ market_data \in ServiceStores
    /\ call = NoCall
    /\ result = NoResult
    /\ backtest = NoBacktest

\* RiskCalculationService.calculate on a request: request.methods or
\* ["historical"], request.confidence_levels or [0.95, 0.99]
ServiceCalculate ==
    /\ call = NoCall
    /\ \E methods \in MethodLists, confidence_levels \in ServiceLevelLists,
          window_days \in 1..MaxStoreRows, greeks \in BOOLEAN,
          greeks_raise \in BOOLEAN :
          LET request ==
                [op |-> "calculate",
                 methods |-> IF methods = <<>> THEN <<"historical">> ELSE methods,
                 confidence_levels |->
                     IF confidence_levels = <<>>
                     THEN <<<<19, 20>>, <<99, 100>>>> ELSE confidence_levels,
                 window_days |-> window_days,
                 compute_greeks |-> greeks,
                 greeks_raise |-> greeks /\ greeks_raise]
          IN  /\ call' = request
              /\ result' = calculate(portfolio, market_data, request)
    /\ UNCHANGED <<portfolio, market_data, backtest>>

NextService == ServiceCalculate \/ Return

SpecService == InitService /\ [][NextService]_vars

-----------------------------------------------------------------------------
(* StressTestingService *)

\* stress_df[stress_df["scenario"] == name]: the rows that carry the name
RECURSIVE RowsNamed(_, _)
RowsNamed(stress_df, name) ==
    IF stress_df = <<>> THEN <<>>
    ELSE IF Head(stress_df).scenario = name
    THEN <<Head(stress_df)>> \o RowsNamed(Tail(stress_df), name)
    ELSE RowsNamed(Tail(stress_df), name)

\* the loop of StressTestingService.run that builds the results: the rows are
\* looked up by scenario name, and of several rows with one name the first is read
RECURSIVE BuildResults(_, _, _, _, _)
BuildResults(stress_df, base_npv, scenarios, results, warnings) ==
    IF scenarios = <<>> THEN [results |-> results, warnings |-> warnings]
    ELSE LET scenario == Head(scenarios)
             scenario_row == RowsNamed(stress_df, scenario.name)
         IN  IF scenario_row = <<>>
             THEN BuildResults(stress_df, base_npv, Tail(scenarios), results,
                               Append(warnings, [kind |-> "No results for scenario",
                                                 about |-> scenario.name]))
             ELSE BuildResults(stress_df, base_npv, Tail(scenarios),
                               Append(results,
                                      [scenario_name |-> scenario.name,
                                       base_npv |-> base_npv,
                                       stressed_npv |-> scenario_row[1].stressed_npv,
                                       pnl |-> scenario_row[1].pnl,
                                       pct_change |-> scenario_row[1].pct_change,
                                       shocks_applied |-> scenario.shocks]),
                               warnings)

Linearity_10pct ==
    <<"L", "i", "n", "e", "a", "r", "i", "t", "y", "_", "1", "0", "p", "c", "t">>

Linearity_20pct ==
    <<"L", "i", "n", "e", "a", "r", "i", "t", "y", "_", "2", "0", "p", "c", "t">>

\* the two scenarios _validate_linearity builds
scenario_10 ==
    StressScenarioValidate(Linearity_10pct, [f \in {"SPX"} |-> <<-1, 10>>],
                           "10% shock for linearity test").value

scenario_20 ==
    StressScenarioValidate(Linearity_20pct, [f \in {"SPX"} |-> <<-1, 5>>],
                           "20% shock for linearity test").value

\* pnl_10 < 1e-6
NEGLIGIBLE_PNL == <<1, 1000000>>

\* tolerance = 0.05
LINEARITY_TOLERANCE == <<1, 20>>

\* is_linear = abs(ratio - 2.0) <= tolerance * 2.0
IsLinear(ratio) ==
    RLeq(RAbs(RSub(ratio, Rat(2, 1))), RMul(LINEARITY_TOLERANCE, Rat(2, 1)))

\* the end of _validate_linearity, from the ratio on
RatioVerdict(ratio, warnings) ==
    IF IsLinear(ratio)
    THEN [is_linear |-> TRUE, warnings |-> warnings]
    ELSE [is_linear |-> FALSE,
          warnings |-> Append(warnings, [kind |-> "Linearity check", about |-> ratio])]

\* _validate_linearity from the two absolute P&Ls on
LossVerdict(pnl_10, pnl_20, warnings) ==
    IF RLt(pnl_10, NEGLIGIBLE_PNL)
    THEN [is_linear |-> TRUE, warnings |-> warnings]
    ELSE RatioVerdict(RDiv(pnl_20, pnl_10), warnings)

\* _validate_linearity, given what the risk port's stress_test answered for
\* [scenario_10, scenario_20]: an exception of the port is caught
validate_linearity(answer, warnings) ==
    IF answer.status # "ok"
    THEN [is_linear |-> TRUE,
          warnings |-> Append(warnings, [kind |-> "Linearity validation failed",
                                         about |-> answer.exc])]
    ELSE IF RowsNamed(answer.value, Linearity_10pct) = <<>>
            \/ RowsNamed(answer.value, Linearity_20pct) = <<>>
    THEN [is_linear |-> TRUE, warnings |-> warnings]
    ELSE LossVerdict(RAbs(RowsNamed(answer.value, Linearity_10pct)[1].pnl),
                     RAbs(RowsNamed(answer.value, Linearity_20pct)[1].pnl),
                     warnings)

\* _build_comparison_df
build_comparison_df(results) ==
    [i \in 1..Len(results) |->
        [scenario |-> results[i].scenario_name, base_npv |-> results[i].base_npv,
         stressed_npv |-> results[i].stressed_npv, pnl |-> results[i].pnl,
         pct_change |-> results[i].pct_change]]

\* the StressTestResponse, once results and linearity verdict are known;
\* linearity_validated is None ("None") when no validation was asked for
StressResponse(request, built, verdict) ==
    Returned([results |-> built.results,
              comparison_df |-> build_comparison_df(built.results),
              report_path |-> IF request.generate_report THEN "stress_test.html"
                              ELSE "None",
              linearity_validated |-> IF request.validate_linearity
                                      THEN verdict.is_linear ELSE "None",
              warnings |-> verdict.warnings])

\* run from step 3 on
RunValidated(request, built, linearity_answer) ==
    StressResponse(request, built,
                   IF request.validate_linearity
                   THEN validate_linearity(linearity_answer, built.warnings)
                   ELSE [is_linear |-> "None", warnings |-> built.warnings])

\* run from step 2 on: stress_test raises what the port raises
RunStressed(request, p, md, base_npv, stress_df, linearity_answer) ==
    IF stress_df.status # "ok" THEN stress_df
    ELSE RunValidated(request,
                      BuildResults(stress_df.value, base_npv, request.scenarios,
                                   <<>>, <<>>),
                      linearity_answer)

\* StressTestingService.run on OREAdapter; linearity_answer is what the risk
\* port's stress_test answers for [scenario_10, scenario_20]
run(request, p, md, linearity_answer) ==
    IF request.scenarios = <<>>
    THEN Raised("ValueError", "At least one scenario is required")
    ELSE IF value_portfolio(p, md).status # "ok" THEN value_portfolio(p, md)
    ELSE RunStressed(request, p, md, value_portfolio(p, md).value,
                     stress_test(p, md, request.scenarios), linearity_answer)

RunPortfolios ==
    ValidPortfolios({{}, {"A"}, {"SPX"}, {"A", "SPX"}, {"A", "C"}},
                    {One}, {<<1, 2>>, One}, {<<100, 1>>})

RunTables ==
    UNION {PriceTables(n, cols) :
              n \in 0..MaxStressRows, cols \in {{}, {"A"}, {"SPX"}}}
    \cup UNION {PriceTables(n, {"A", "SPX"}) : n \in 0..(MaxStressRows - 1)}
    \cup {[index |-> <<"d1", "d2">>, columns |-> [c \in {col} |-> <<One, NaN>>]] :
             col \in {"A", "SPX"}}

RunScenarios ==
    {StressScenarioValidate(name, shocks, "").value :
        name \in {<<"s">>, <<"t">>},
        shocks \in {[f \in {"A"} |-> <<-1, 2>>], [f \in {"SPX"} |-> <<-1, 10>>]}}

RunScenarioLists == UNION {[1..n -> RunScenarios] : n \in 0..MaxScenarios}

\* a row of a stress_test answer of a risk port
PortRow(name, base_npv, pnl) ==
    [scenario |-> name, base_npv |-> base_npv,
     stressed_npv |-> RAdd(base_npv, pnl), pnl |-> pnl,
     pct_change |-> RDiv(pnl, base_npv), error |-> "none"]

\* the P&Ls, in hundredths of the base NPV, that a RiskPort pricing non-linear
\* instruments answers for the 10% and the 20% scenario
PortLosses == {<<-20, -37>>, <<-20, -38>>, <<-20, -42>>, <<-20, -43>>, <<-20, -45>>}

\* answers of a RiskPort other than OREAdapter to [scenario_10, scenario_20]:
\* the service knows such a port by its answers alone
PortAnswers ==
    {Returned(<<PortRow(Linearity_10pct, <<100, 1>>, <<l[1], 1>>),
                PortRow(Linearity_20pct, <<100, 1>>, <<l[2], 1>>)>>) :
        l \in PortLosses}
    \cup {Returned(<<>>), Raised("RuntimeError", "stress_test")}

InitRun ==
    /\ portfolio \in RunPortfolios
    /\ market_data \in RunTables
    /\ call = NoCall
    /\ result = NoResult
    /\ backtest = NoBacktest

\* StressTestingService.run on a request over the caller's portfolio and table
RunStressTests ==
    /\ call = NoCall
    /\ \E scenarios \in RunScenarioLists, validate \in BOOLEAN, report \in BOOLEAN,
          linearity_answer \in
              {stress_test(portfolio, market_data, <<scenario_10, scenario_20>>)}
              \cup PortAnswers :
          LET request == [op |-> "run", scenarios |-> scenarios,
                          validate_linearity |-> validate,
                          generate_report |-> report,
                          linearity_answer |-> linearity_answer]
          IN  /\ call' = request
              /\ result' = run(request, portfolio, market_data, linearity_answer)
    /\ UNCHANGED <<portfolio, market_data, backtest>>

NextRun == RunStressTests \/ Return

SpecRun == InitRun /\ [][NextRun]_vars

-----------------------------------------------------------------------------
(* Properties of the domain objects (SpecDomain) *)

\* a value of the 1e-6 grid in units of 1e-6, and of the 5e-7 grid in units of 5e-7
Micro(x) == x[1] * (1000000 \div x[2])

HalfMicro(x) == x[1] * (2000000 \div x[2])

MaxInt(a, b) == IF a < b THEN b ELSE a

\* cvar <= var + 1e-6 * max(|var|, |cvar|, 1), in units of 1e-6
CVaRWithinTolerance(var_val, cvar_val) ==
    Micro(cvar_val) - Micro(var_val) <=
        MaxInt(MaxInt(Abs(Micro(var_val)), Abs(Micro(cvar_val))), 1000000)
            \div 1000000

\* C2: constructing a RiskMetrics succeeds exactly when var and cvar carry the same
\* confidence labels and, at every label, cvar <= var + 1e-6 * max(|var|, |cvar|, 1)
\* (so cvar = var is accepted); every other construction raises ValueError and
\* returns no object.
C2_RiskMetricsConstruction ==
    call.op = "RiskMetrics" =>
        LET valid ==
                /\ DOMAIN call.var = DOMAIN call.cvar
                /\ \A level \in DOMAIN call.var :
                       CVaRWithinTolerance(call.var[level], call.cvar[level])
        IN  /\ valid =>
                /\ result.status = "ok"
                /\ result.value.var = call.var
                /\ result.value.cvar = call.cvar
            /\ ~valid => result.status = "raised" /\ result.exc = "ValueError"

\* C2 happens: a RiskMetrics is constructed with cvar equal to var at one label and
\* cvar above var, inside the scaled tolerance, at another
C2_Witness ==
    /\ call.op = "RiskMetrics"
    /\ result.status = "ok"
    /\ \E level \in DOMAIN call.var : call.cvar[level] = call.var[level]
    /\ \E level \in DOMAIN call.var :
           /\ RLt(call.var[level], call.cvar[level])
           /\ Micro(call.cvar[level]) - Micro(call.var[level]) > 1

\* the sum of the weights differs from 1.0 or from 0.0 by less than 1e-6
RECURSIVE HalfMicroSum(_, _)
HalfMicroSum(weights, S) ==
    IF S = {} THEN 0
    ELSE LET s == CHOOSE x \in S : TRUE
         IN  HalfMicro(weights[s]) + HalfMicroSum(weights, S \ {s})

WeightSumFeasible(weights) ==
    LET total == HalfMicroSum(weights, DOMAIN weights)
    IN  Abs(total - 2000000) < 2 \/ Abs(total) < 2

\* C3 as stated: construction, directly or through from_weights, succeeds exactly
\* when the key sets agree, the weights sum to 1.0 or 0.0 within 1e-6 and nav >= 0,
\* and every failure is a ValueError.
C3_AsStated ==
    call.op \in {"Portfolio", "from_weights"} =>
        LET valid ==
                /\ call.op = "Portfolio" => DOMAIN call.positions = DOMAIN call.weights
                /\ WeightSumFeasible(call.weights)
                /\ call.nav[1] >= 0
        IN  /\ result.status = "ok" <=> valid
            /\ result.status # "ok" => result.exc = "ValueError"

\* C3 amended: a direct construction succeeds exactly when the key sets agree, the
\* weights sum to 1.0 or to 0.0 with a difference below 1e-6 and nav >= 0, and
\* raises ValueError otherwise.  from_weights succeeds exactly when, in addition,
\* every weight symbol has a non-zero price; it raises ZeroDivisionError only when
\* some weight symbol has price 0 and ValueError in every other failing case.  A
\* Portfolio that is returned holds the weights and nav it was given and one
\* position per weight symbol.
C3_PortfolioConstruction ==
    /\ call.op = "Portfolio" =>
        LET valid ==
                /\ DOMAIN call.positions = DOMAIN call.weights
                /\ WeightSumFeasible(call.weights)
                /\ call.nav[1] >= 0
        IN  /\ valid =>
                result = Returned([positions |-> call.positions,
                                   weights |-> call.weights, nav |-> call.nav])
            /\ ~valid => result.status = "raised" /\ result.exc = "ValueError"
    /\ call.op = "from_weights" =>
        LET priced == \A s \in DOMAIN call.weights :
                          s \in DOMAIN call.prices /\ call.prices[s][1] # 0
            zero == \E s \in DOMAIN call.weights :
                          s \in DOMAIN call.prices /\ call.prices[s][1] = 0
            valid ==
                /\ priced
                /\ WeightSumFeasible(call.weights)
                /\ call.nav[1] >= 0
        IN  /\ valid =>
                /\ result.status = "ok"
                /\ result.value.weights = call.weights
                /\ result.value.nav = call.nav
                /\ DOMAIN result.value.positions = DOMAIN call.weights
            /\ ~valid =>
                /\ result.status = "raised"
                /\ result.exc \in {"ValueError", "ZeroDivisionError"}
                /\ result.exc = "ZeroDivisionError" => zero
                /\ ~zero => result.exc = "ValueError"

\* C3 happens: from_weights returns a Portfolio with positions, and the weights of
\* the call sum to 1.0 only within the tolerance
C3_Witness ==
    /\ call.op = "from_weights"
    /\ result.status = "ok"
    /\ Cardinality(DOMAIN result.value.positions) = 2
    /\ HalfMicroSum(call.weights, DOMAIN call.weights) = 2000001

-----------------------------------------------------------------------------
(* Properties of calculate_var and calculate_cvar (SpecVaR) *)

LevelsValid(levels) == \A i \in 1..Len(levels) : ~InvalidLevel(levels[i])

\* the rows for which some held symbol has a price and an earlier price
ObservationRows(p, md) ==
    {r \in 2..NumRows(md) :
        \E s \in DOMAIN p.weights \cap Columns(md) :
            /\ ~IsNaN(md.columns[s][r])
            /\ \E q \in 1..(r - 1) : ~IsNaN(md.columns[s][q])}

Derivable(p, md) == Cardinality(ObservationRows(p, md))

GapFree(md) ==
    \A s \in Columns(md) : \A r \in 1..NumRows(md) : ~IsNaN(md.columns[s][r])

IsInsufficientData(r) == r.status = "raised" /\ r.exc = "InsufficientDataError"

\* the most the rounded square root can move a parametric VaR: the root is
\* short by less than 1/SqrtScale and no tabulated z exceeds 3 in magnitude
RootSlack(nav) == RMul(nav, <<3, SqrtScale>>)

\* C1: for either method calculate_var accepts, calculate_cvar called with the
\* same method, confidence levels and window over a sufficient history returns
\* the labels calculate_var returns and, for every label, a value no greater
\* than the VaR (up to the rounding of the square root in the parametric VaR).
C1_AsStated ==
    (/\ call.op = "calculate_cvar"
     /\ call.method \in {"historical", "parametric"}
     /\ call.window_days >= 2
     /\ result.status = "ok")
    => LET v == calculate_var(portfolio, market_data, call.method,
                              call.confidence_levels, call.window_days)
       IN  v.status = "ok" =>
             /\ DOMAIN result.value = DOMAIN v.value
             /\ \A l \in DOMAIN v.value :
                   RLeq(result.value[l], RAdd(v.value[l], RootSlack(portfolio.nav)))

\* the historical half of C1: the tail mean is no greater than the percentile
\* it is the tail of
C1_Historical ==
    (/\ call.op = "calculate_cvar"
     /\ result.status = "ok")
    => LET v == calculate_var(portfolio, market_data, "historical",
                              call.confidence_levels, call.window_days)
       IN  v.status = "ok" =>
             /\ DOMAIN result.value = DOMAIN v.value
             /\ \A l \in DOMAIN v.value : RLeq(result.value[l], v.value[l])

\* what C5 says of one finished call
InsufficientExactly(p, md, c, r) ==
    LET short == Derivable(p, md) < c.window_days
    IN  /\ IsInsufficientData(r) <=> short
        /\ short => /\ r.status = "raised"
                    /\ r.about = [required_days |-> c.window_days,
                                  available_days |-> Derivable(p, md)]
        /\ (GapFree(md) /\ DOMAIN p.weights \cap Columns(md) # {})
              => (IsInsufficientData(r) <=> NumRows(md) - 1 < c.window_days)

\* C5 as stated: calculate_var and calculate_cvar raise InsufficientDataError
\* with required = window_days and available = the number of return
\* observations exactly when fewer than window_days observations can be derived
\* (k gap-free rows give k-1), and return no value in that case.
C5_AsStated ==
    call.op \in {"calculate_var", "calculate_cvar"}
    => InsufficientExactly(portfolio, market_data, call, result)

\* C5: calculate_cvar always, and calculate_var when every confidence level is
\* strictly inside (0, 1), raises InsufficientDataError with required =
\* window_days and available = the number of return observations exactly when
\* fewer than window_days observations can be derived (k gap-free rows give
\* k-1), and returns no value then; calculate_var given a level outside (0, 1)
\* raises ValueError whatever the history.
C5_InsufficientData ==
    /\ call.op = "calculate_cvar"
       => InsufficientExactly(portfolio, market_data, call, result)
    /\ (call.op = "calculate_var" /\ LevelsValid(call.confidence_levels))
       => InsufficientExactly(portfolio, market_data, call, result)
    /\ (call.op = "calculate_var" /\ ~LevelsValid(call.confidence_levels))
       => (result.status = "raised" /\ result.exc = "ValueError")

C5_Witness ==
    /\ call.op = "calculate_var"
    /\ LevelsValid(call.confidence_levels)
    /\ IsInsufficientData(result)
    /\ GapFree(market_data)
    /\ NumRows(market_data) = call.window_days
    /\ result.about.available_days = call.window_days - 1
    /\ result.about.available_days >= 1

-----------------------------------------------------------------------------
(* Properties of value_portfolio and stress_test (SpecStress) *)

HasEntry(md, symbol) == symbol \in Columns(md) \/ symbol \in Range(md.index)

Unpriced(p, md) == {s \in DOMAIN p.positions : ~HasEntry(md, s)}

\* quantity times the most recent price, for a symbol with an entry in a table
\* that has rows
PositionValue(p, md, s) ==
    RMul(p.positions[s],
         IF s \in Columns(md) THEN md.columns[s][NumRows(md)]
         ELSE md.columns["close"][RowOf(md, s)])

MarketValue(p, md) ==
    SumValues([s \in DOMAIN p.positions |-> PositionValue(p, md, s)])

\* what C10 says of one finished call
ValuedOrRefused(p, md, r) ==
    IF Unpriced(p, md) = {}
    THEN r = Returned(MarketValue(p, md))
    ELSE /\ r.status = "raised"
         /\ r.exc = "PricingError"
         /\ r.about \in Unpriced(p, md)

ScenarioFails(p, md, scenario) ==
    value_portfolio(p, apply_shocks(md, scenario)).status = "raised"

\* C8: when valuing the portfolio under a scenario fails, stress_test still
\* returns one row per scenario, the failing scenario's row has null
\* stressed_npv, pnl and pct_change and an error string, and the other rows are
\* the rows of the call without the failing scenarios.
C8_AsStated ==
    (call.op = "stress_test" /\ NumRows(market_data) >= 1)
    => /\ result.status = "ok"
       /\ DOMAIN result.value = 1..Len(call.scenarios)
       /\ \A i \in 1..Len(call.scenarios) :
             ScenarioFails(portfolio, market_data, call.scenarios[i])
             => /\ IsNaN(result.value[i].stressed_npv)
                /\ IsNaN(result.value[i].pnl)
                /\ IsNaN(result.value[i].pct_change)
                /\ result.value[i].error # "none"
       /\ LET passes(sc) == ~ScenarioFails(portfolio, market_data, sc)
              rows == [i \in 1..Len(call.scenarios) |->
                          <<result.value[i], passes(call.scenarios[i])>>]
              kept == SelectSeq(rows, LAMBDA row : row[2])
              alone == stress_test(portfolio, market_data,
                                   SelectSeq(call.scenarios, passes))
          IN  /\ alone.status = "ok"
              /\ [i \in 1..Len(kept) |-> kept[i][1]] = alone.value

\* C9: every row of one stress_test call reports the same base_npv, the value
\* value_portfolio returns for the same portfolio and market data.
C9_AsStated ==
    (call.op = "stress_test" /\ NumRows(market_data) >= 1)
    => LET base == value_portfolio(portfolio, market_data)
       IN  /\ base.status = "raised" => result.status = "raised"
           /\ (base.status = "ok" /\ result.status = "ok")
              => \A i \in DOMAIN result.value :
                    result.value[i].base_npv = base.value

-----------------------------------------------------------------------------
(* Properties of the rolling backtest (SpecBacktest) *)

\* C6: over a history of N rows with N > W + 1 the backtest runs to completion
\* with exactly one result row for each day t = W .. N-2, in date order, each
\* row's breached flag being actual_pnl < predicted_var.
C6_AsStated ==
    (/\ backtest.pc = "done"
     /\ NumRows(market_data) > call.lookback_days + 1)
    => /\ result.status = "ok"
       /\ Len(result.value.results) = NumRows(market_data) - call.lookback_days - 1
       /\ \A k \in 1..Len(result.value.results) :
             LET row == result.value.results[k]
             IN  /\ row.date = market_data.index[call.lookback_days + k]
                 /\ row.breached = RLt(row.actual_pnl, row.predicted_var)

\* what the first pass of the loop does instead: the trailing slice holds W
\* rows, so W - 1 returns, and calculate_var refuses it
C6_FirstDayRefused ==
    (/\ backtest.pc = "done"
     /\ NumRows(market_data) > call.lookback_days + 1)
    => /\ IsInsufficientData(result)
       /\ result.about = [required_days |-> call.lookback_days,
                          available_days |-> call.lookback_days - 1]

-----------------------------------------------------------------------------
(* Properties of RiskCalculationService.calculate (SpecService) *)

\* several methods are requested and the engine answers every one of them, and
\* the CVaR request, on the loaded data
SeveralMethodsServed ==
    /\ call.op = "calculate"
    /\ Len(call.methods) > 1
    /\ LET loaded == load_market_data(portfolio, market_data)
       IN  /\ loaded.status = "ok"
           /\ \A i \in 1..Len(call.methods) :
                 calculate_var(portfolio, loaded.value, call.methods[i],
                               call.confidence_levels, call.window_days).status = "ok"
           /\ calculate_cvar(portfolio, loaded.value,
                  [method |-> call.methods[1],
                   confidence_levels |-> call.confidence_levels,
                   window_days |-> call.window_days]).status = "ok"

\* C7: given more than one VaR method and sufficient market data, calculate
\* returns a RiskMetrics whose var mapping has a key "{method}_{label}" for every
\* requested method and every confidence label, the CVaR being the one computed
\* with the first method's parameters.
C7_AsStated ==
    SeveralMethodsServed
    => /\ result.status = "ok"
       /\ DOMAIN result.value.metrics.var =
             {<<call.methods[i], Percent(call.confidence_levels[j])>> :
                 i \in 1..Len(call.methods), j \in 1..Len(call.confidence_levels)}
       /\ Returned(result.value.metrics.cvar) =
             calculate_cvar(portfolio, load_market_data(portfolio, market_data).value,
                 [method |-> call.methods[1],
                  confidence_levels |-> call.confidence_levels,
                  window_days |-> call.window_days])

\* what calculate does instead: the prefixed VaR keys never equal the unprefixed
\* CVaR keys, and RiskMetrics refuses the pair
C7_SeveralMethodsRefused ==
    SeveralMethodsServed
    => /\ result.status = "raised"
       /\ result.exc = "ValueError"
       /\ result.about = "same confidence levels"

-----------------------------------------------------------------------------
(* Further properties of calculate_var and calculate_cvar (SpecVaR) *)

\* a finished historical calculate_var call that returned a dict
HistoricalReturned ==
    /\ call.op = "calculate_var"
    /\ call.method = "historical"
    /\ result.status = "ok"

\* the pairs of requested levels c1 < c2, as positions in the list
RisingPairs(levels) ==
    {pair \in (1..Len(levels)) \X (1..Len(levels)) :
        RLt(levels[pair[1]], levels[pair[2]])}

C12_AsStated ==
    (/\ call.op = "calculate_var"
     /\ call.window_days >= 2
     /\ result.status = "ok")
    => \A l \in DOMAIN result.value : RLeq(result.value[l], Zero)

\* C13: calculate_var raises ValueError, returning nothing, whenever a
\* requested confidence level is not strictly inside (0, 1), exactly 0 and
\* exactly 1 included, whatever the method and the length of the history.
C13_InvalidLevelRefused ==
    (/\ call.op = "calculate_var"
     /\ \E i \in 1..Len(call.confidence_levels) :
           \/ RLeq(call.confidence_levels[i], Zero)
           \/ RLeq(One, call.confidence_levels[i]))
    => /\ result.status = "raised"
       /\ result.exc = "ValueError"

C13_Witness ==
    /\ call.op = "calculate_var"
    /\ call.method = "parametric"
    /\ call.confidence_levels = <<<<19, 20>>, One>>
    /\ Derivable(portfolio, market_data) >= call.window_days
    /\ result.status = "raised"
    /\ result.exc = "ValueError"

\* C14: calculate_var and calculate_cvar return one entry for each requested
\* level, keyed by its label: n distinct levels in (0, 1) give exactly n
\* entries.
C14_AsStated ==
    (/\ call.op \in {"calculate_var", "calculate_cvar"}
     /\ LevelsValid(call.confidence_levels)
     /\ result.status = "ok")
    => /\ DOMAIN result.value = {Label(l) : l \in Range(call.confidence_levels)}
       /\ Cardinality(DOMAIN result.value) =
             Cardinality(Range(call.confidence_levels))

-----------------------------------------------------------------------------
(* Further properties of stress_test (SpecStress) *)

\* a finished stress_test call that returned its rows
StressReturned == call.op = "stress_test" /\ result.status = "ok"

\* what one shock key does to one column, as C16 states it
ShockFactor(md, key, shock, col) ==
    IF key \in Columns(md)
    THEN (IF key = col THEN RAdd(One, shock) ELSE One)
    ELSE IF key = "equity_all" THEN RAdd(One, shock)
    ELSE One

RECURSIVE FactorProduct(_, _, _, _)
FactorProduct(md, shocks, keys, col) ==
    IF keys = {} THEN One
    ELSE LET key == CHOOSE k \in keys : TRUE
         IN  RMul(ShockFactor(md, key, shocks[key], col),
                  FactorProduct(md, shocks, keys \ {key}, col))

ShockedAsStated(md, scenario) ==
    [md EXCEPT !.columns =
        [col \in Columns(md) |->
            [i \in 1..NumRows(md) |->
                RMul(md.columns[col][i],
                     FactorProduct(md, scenario.shocks, DOMAIN scenario.shocks, col))]]]

\* C16: each shock key of a scenario is resolved in this order: a key that is
\* a column multiplies that column alone by (1 + shock); otherwise the key
\* "equity_all" multiplies every column; otherwise the table is unchanged; and
\* each row's stressed_npv is the portfolio's value on the table so shocked.
C16_ShockResolution ==
    StressReturned
    => \A i \in 1..Len(call.scenarios) :
          /\ apply_shocks(market_data, call.scenarios[i])
                = ShockedAsStated(market_data, call.scenarios[i])
          /\ Returned(result.value[i].stressed_npv)
                = calculate_npv(portfolio,
                                ShockedAsStated(market_data, call.scenarios[i]))

C16_Witness ==
    /\ StressReturned
    /\ Columns(market_data) = {"A", "equity_all"}
    /\ DOMAIN portfolio.positions = {"A"}
    /\ Len(call.scenarios) = 1
    /\ call.scenarios[1].shocks = [f \in {"equity_all"} |-> <<-1, 10>>]
    /\ result.value[1].base_npv # Zero
    /\ result.value[1].pnl = Zero

\* every position symbol is a column and the base NPV is not zero
FullyPriced ==
    /\ DOMAIN portfolio.positions \subseteq Columns(market_data)
    /\ NumRows(market_data) >= 1
    /\ calculate_npv(portfolio, market_data).value # Zero

\* the scenarios of the call that shock the one symbol sym, a column
SingleSymbolShocks(sym) ==
    {i \in 1..Len(call.scenarios) : DOMAIN call.scenarios[i].shocks = {sym}}

ValueShare(sym) ==
    RDiv(RMul(portfolio.positions[sym],
              market_data.columns[sym][NumRows(market_data)]),
         calculate_npv(portfolio, market_data).value)

SentinelShocks ==
    {i \in 1..Len(call.scenarios) : DOMAIN call.scenarios[i].shocks = {"equity_all"}}

\* the scenarios of the call whose shocks are all 0
ZeroShocks ==
    {i \in 1..Len(call.scenarios) :
        \A k \in DOMAIN call.scenarios[i].shocks : call.scenarios[i].shocks[k] = Zero}

\* what C18 concludes from its precondition
LinearInSentinel ==
    /\ \A i \in SentinelShocks :
          result.value[i].pct_change = call.scenarios[i].shocks["equity_all"]
    /\ \A i \in ZeroShocks : result.value[i].pnl = Zero
    /\ \A i, j \in SentinelShocks :
          call.scenarios[j].shocks["equity_all"]
             = RMul(Rat(2, 1), call.scenarios[i].shocks["equity_all"])
          => result.value[j].pnl = RMul(Rat(2, 1), result.value[i].pnl)

\* C18 as stated: for a portfolio whose position symbols are all columns and
\* whose base NPV is not zero, a scenario {"equity_all": s} yields
\* pct_change = s, a scenario of zero shocks yields pnl = 0, and the loss at
\* shock 2k is twice the loss at shock k.
C18_AsStated ==
    (StressReturned /\ FullyPriced) => LinearInSentinel

\* C18: the same, for market data without a column named "equity_all"; with
\* such a column the shock reaches that column alone.
C18_SentinelLinear ==
    (StressReturned /\ FullyPriced /\ "equity_all" \notin Columns(market_data))
    => LinearInSentinel

C18_Witness ==
    /\ StressReturned
    /\ FullyPriced
    /\ "equity_all" \notin Columns(market_data)
    /\ Len(call.scenarios) = 2
    /\ call.scenarios[1].shocks = [f \in {"equity_all"} |-> <<-1, 10>>]
    /\ call.scenarios[2].shocks = [f \in {"equity_all"} |-> <<-1, 5>>]
    /\ result.value[1].pct_change = <<-1, 10>>
    /\ result.value[2].pnl = RMul(Rat(2, 1), result.value[1].pnl)
    /\ result.value[1].pnl # Zero

\* C19: every successfully valued row of stress_test has
\* pnl = stressed_npv - base_npv and pct_change = pnl / base_npv, with
\* pct_change = 0 when base_npv is 0; no quotient by zero is formed.
C19_RowArithmetic ==
    StressReturned
    => \A i \in 1..Len(result.value) :
          result.value[i].error = "none"
          => /\ result.value[i].pnl
                   = RSub(result.value[i].stressed_npv, result.value[i].base_npv)
             /\ result.value[i].base_npv # Zero
                   => result.value[i].pct_change
                         = RDiv(result.value[i].pnl, result.value[i].base_npv)
             /\ result.value[i].base_npv = Zero
                   => result.value[i].pct_change = Zero
             /\ result.value[i].pct_change[2] # 0

C19_Witness ==
    /\ StressReturned
    /\ Len(result.value) = 2
    /\ result.value[1].error = "none"
    /\ result.value[1].base_npv = <<2, 1>>
    /\ result.value[1].pnl = <<-1, 2>>
    /\ result.value[1].pct_change = <<-1, 4>>
    /\ result.value[2].pnl = Zero

-----------------------------------------------------------------------------
(* Properties of StressTestingService.run (SpecRun) *)

\* a finished run that returned its response
RunReturned == call.op = "run" /\ result.status = "ok"

\* C15 as stated: for a non-empty list of scenarios, stress_test returns one
\* row per scenario and run one StressTestResult per scenario, and the i-th of
\* either carries the name and the P&L of the i-th input scenario, also when
\* two scenarios share a name.
C15_AsStated ==
    RunReturned
    => LET rows == stress_test(portfolio, market_data, call.scenarios).value
           base_npv == calculate_npv(portfolio, market_data).value
       IN  /\ Len(rows) = Len(call.scenarios)
           /\ Len(result.value.results) = Len(call.scenarios)
           /\ \A i \in 1..Len(call.scenarios) :
                 LET own == StressRow(portfolio, market_data, call.scenarios[i],
                                      base_npv)
                 IN  /\ rows[i].scenario = call.scenarios[i].name
                     /\ rows[i].pnl = own.pnl
                     /\ result.value.results[i].scenario_name = call.scenarios[i].name
                     /\ result.value.results[i].pnl = own.pnl

\* the ratio of the absolute P&Ls the port answered for the two synthetic shocks
AnsweredLoss(name) == RAbs(RowsNamed(call.linearity_answer.value, name)[1].pnl)

AnsweredRatio == RDiv(AnsweredLoss(Linearity_20pct), AnsweredLoss(Linearity_10pct))

\* both synthetic shocks were answered with a loss that is not negligible
LossesAnswered ==
    /\ call.op = "run"
    /\ call.scenarios # <<>>
    /\ call.validate_linearity
    /\ value_portfolio(portfolio, market_data).status = "ok"
    /\ call.linearity_answer.status = "ok"
    /\ RowsNamed(call.linearity_answer.value, Linearity_10pct) # <<>>
    /\ RowsNamed(call.linearity_answer.value, Linearity_20pct) # <<>>
    /\ ~RLt(AnsweredLoss(Linearity_10pct), NEGLIGIBLE_PNL)
    /\ ~RLt(AnsweredLoss(Linearity_20pct), NEGLIGIBLE_PNL)

\* the results of the same request without the linearity validation
UnvalidatedResults ==
    run([call EXCEPT !.validate_linearity = FALSE], portfolio, market_data,
        call.linearity_answer).value.results

\* C20 as stated: when both synthetic shocks give a loss that is not negligible,
\* run reports the portfolio as linear if 1.8 <= ratio <= 2.2 (10% relative
\* tolerance around 2.0); otherwise it returns all the same, with
\* linearity_validated false, a warning, and the scenario results untouched.
C20_AsStated ==
    LossesAnswered
    => /\ result.status = "ok"
       /\ result.value.results = UnvalidatedResults
       /\ IF RLeq(<<9, 5>>, AnsweredRatio) /\ RLeq(AnsweredRatio, <<11, 5>>)
          THEN result.value.linearity_validated = TRUE
          ELSE /\ result.value.linearity_validated = FALSE
               /\ \E w \in Range(result.value.warnings) : w.kind = "Linearity check"

-----------------------------------------------------------------------------
(* Properties of the backtest statistics (SpecStatistics) *)

\* main has exited on statistics that were returned
StatisticsReported == backtest.pc = "exited" /\ result.status = "ok"

\* the exit codes main gives a model the test accepts, and one it rejects
EXIT_VALID == 0

EXIT_REJECTED == 1

C29_TransitionTally ==
    (backtest.pc # "statistics" /\ result.status = "ok")
    => LET st == result.value
           n == st.total_days
           breached(i) == st.results[i].breached
       IN  /\ n >= 1
           /\ st.n00 + st.n01 + st.n10 + st.n11 = n - 1
           /\ st.n01 + st.n11 = Cardinality({i \in 2..n : breached(i)})
           /\ st.n10 + st.n11 = Cardinality({i \in 1..(n - 1) : breached(i)})
           /\ st.n01 - st.n10 \in {-1, 0, 1}
           /\ \A i \in 2..n :
                 LET tally == IF breached(i - 1)
                              THEN (IF breached(i) THEN st.n11 ELSE st.n10)
                              ELSE (IF breached(i) THEN st.n01 ELSE st.n00)
                 IN  tally >= 1

C29_Witness ==
    /\ backtest.pc = "returned"
    /\ result.status = "ok"
    /\ result.value.total_days = 4
    /\ result.value.n00 = 0
    /\ result.value.n01 = 1
    /\ result.value.n10 = 1
    /\ result.value.n11 = 1

-----------------------------------------------------------------------------
(* Properties of the constructed domain objects (SpecObjects) *)

\* the invariants the constructor of the held instance checks
InvariantsHold ==
    IF call.op = "Portfolio"
    THEN PortfolioValidate(result.value.positions, result.value.weights,
                           result.value.nav).status = "ok"
    ELSE IF call.op = "StressScenario"
    THEN StressScenarioValidate(result.value.name, result.value.shocks,
                                result.value.description).status = "ok"
    ELSE RiskMetricsValidate(result.value.var, result.value.cvar,
                             result.value.greeks).status = "ok"

\* C22 as stated: a constructed Portfolio, StressScenario or RiskMetrics is
\* immutable: in every state reachable after construction, whatever field is
\* assigned or mapping entry changed, the invariants checked at construction
\* hold.
C22_AsStated == InvariantsHold

-----------------------------------------------------------------------------
(* Further properties of RiskCalculationService.calculate (SpecService) *)

\* the engine's answers on the loaded market data, for a finished call
LoadedData == load_market_data(portfolio, market_data)

MethodVaR(i) ==
    calculate_var(portfolio, LoadedData.value, call.methods[i],
                  call.confidence_levels, call.window_days)

FirstMethodCVaR ==
    calculate_cvar(portfolio, LoadedData.value,
                   [method |-> call.methods[1],
                    confidence_levels |-> call.confidence_levels,
                    window_days |-> call.window_days])

\* compute_greeks raised after the load, every VaR and the CVaR succeeded
GreeksAloneFailed ==
    /\ call.op = "calculate"
    /\ call.greeks_raise
    /\ LoadedData.status = "ok"
    /\ \A i \in 1..Len(call.methods) : MethodVaR(i).status = "ok"
    /\ FirstMethodCVaR.status = "ok"

\* the response has VaR and CVaR, no Greek, and the warning
GreeksDowngraded ==
    /\ result.status = "ok"
    /\ DOMAIN result.value.metrics.var # {}
    /\ Returned(result.value.metrics.cvar) = FirstMethodCVaR
    /\ result.value.metrics.greeks = NoGreeks
    /\ Len(result.value.warnings) = 1
    /\ result.value.warnings[1].kind = "Greeks computation failed"

\* the first engine call that fails, in the order calculate makes them
RECURSIVE FirstFailure(_)
FirstFailure(i) ==
    IF i > Len(call.methods) THEN FirstMethodCVaR
    ELSE IF MethodVaR(i).status # "ok" THEN MethodVaR(i)
    ELSE FirstFailure(i + 1)

\* a failure of calculate_var or calculate_cvar reaches the caller as it is
EngineFailurePropagates ==
    (call.op = "calculate" /\ LoadedData.status = "ok"
        /\ FirstFailure(1).status # "ok")
    => result = FirstFailure(1)

\* the RiskMetrics of the call when no Greek is set
MetricsWithoutGreeks ==
    RiskMetricsValidate(
        MergeVaR(portfolio, LoadedData.value, call, call.methods, EmptyDict).value,
        FirstMethodCVaR.value, NoGreeks)

C26_LoadOrRefuse ==
    call.op = "calculate"
    => LET loadable == DOMAIN portfolio.positions \cap Columns(market_data)
       IN  IF loadable = {}
           THEN /\ result.status = "raised"
                /\ result.exc = "ValueError"
                /\ result.about = "No market data loaded for any portfolio symbol"
           ELSE /\ LoadedData.status = "ok"
                /\ Columns(LoadedData.value) = loadable
                /\ LoadedData.value.index = market_data.index
                /\ FirstFailure(1).status # "ok" => result = FirstFailure(1)
                /\ (FirstFailure(1).status = "ok" /\ MetricsWithoutGreeks.status = "ok")
                   => /\ result.status = "ok"
                      /\ Returned(result.value.metrics.var) = MethodVaR(1)
                      /\ Returned(result.value.metrics.cvar) = FirstMethodCVaR
                /\ (FirstFailure(1).status = "ok" /\ MetricsWithoutGreeks.status # "ok")
                   => result = MetricsWithoutGreeks

C26_Witness ==
    /\ call.op = "calculate"
    /\ DOMAIN portfolio.positions = {"A", "C"}
    /\ Columns(market_data) = {"A", "B"}
    /\ result.status = "ok"
    /\ Columns(LoadedData.value) = {"A"}

-----------------------------------------------------------------------------
(* The window of calculate_var and calculate_cvar (SpecVaR) *)

\* the last n price rows of a table, column by column
LastPrices(md, n) ==
    [s \in Columns(md) |-> SubSeq(md.columns[s], NumRows(md) - n + 1, NumRows(md))]

\* two tables without gaps that agree on their last n price rows
AgreeOnLastRows(md, other, n) ==
    /\ GapFree(md)
    /\ GapFree(other)
    /\ Columns(md) = Columns(other)
    /\ NumRows(md) >= n
    /\ NumRows(other) >= n
    /\ LastPrices(md, n) = LastPrices(other, n)

\* the finished call, made on another table
SameCallOn(md) ==
    IF call.op = "calculate_var"
    THEN calculate_var(portfolio, md, call.method, call.confidence_levels,
                       call.window_days)
    ELSE calculate_cvar(portfolio, md,
                        [method |-> call.method,
                         confidence_levels |-> call.confidence_levels,
                         window_days |-> call.window_days])

\* C28: calculate_var and calculate_cvar use only the most recent window_days
\* return observations: two tables without gaps that agree on their last
\* window_days + 1 price rows give the same VaR and CVaR for the same
\* portfolio, method and confidence levels, whatever their earlier rows hold.
C28_WindowOnly ==
    call.op \in {"calculate_var", "calculate_cvar"}
    => \A other \in VaRTables :
          AgreeOnLastRows(market_data, other, call.window_days + 1)
          => SameCallOn(other) = result

C28_Witness ==
    /\ call.op = "calculate_var"
    /\ call.method = "historical"
    /\ call.window_days = 1
    /\ call.confidence_levels = <<<<19, 20>>>>
    /\ DOMAIN portfolio.weights = {"A"}
    /\ portfolio.nav = <<100, 1>>
    /\ Columns(market_data) = {"A"}
    /\ market_data.columns["A"] = <<One, One, <<2, 1>>>>
    /\ result = Returned([l \in {<<"", 95>>} |-> <<100, 1>>])
    /\ \E other \in VaRTables :
          /\ AgreeOnLastRows(market_data, other, 2)
          /\ other.columns["A"][1] = <<2, 1>>

-----------------------------------------------------------------------------
(* One OREAdapter called by several callers on the same objects *)

\* the callers (threads) that share the engine, the Portfolio and the table
Callers == {"c1", "c2"}

EnginePortfolios ==
    ValidPortfolios({{}, {"A", "B"}}, {One},
                    {<<1, 2>>, One, <<1, 2000000>>}, {<<100, 1>>})

EngineTables ==
    PriceTables(2, {"A"})
    \cup {[index |-> <<"d1", "d2">>,
           columns |-> [c \in {"A", "B"} |->
                           IF c = "A" THEN <<One, <<2, 1>>>> ELSE <<<<2, 1>>, One>>]]}

EngineScenarios ==
    <<StressScenarioValidate(<<"s">>, [f \in {"A"} |-> <<-1, 2>>], "").value,
      StressScenarioValidate(<<"t">>, [f \in {"equity_all"} |-> <<-1, 10>>], "").value>>

EngineScenarioLists ==
    {<<EngineScenarios[1], EngineScenarios[2]>>, <<EngineScenarios[2]>>, <<>>}

EngineVaRParams ==
    [method |-> "historical", confidence_levels |-> <<<<19, 20>>>>, window_days |-> 1]

\* the scaled columns are assigned to the caller's table itself
ShockedInPlace(md, scenario) ==
    [caller |-> apply_shocks(md, scenario), stressed |-> apply_shocks(md, scenario)]

\* _apply_shocks as it acts on the two tables: stressed = market_data.copy(),
\* and every assignment goes to a column of the copy
ShockedCopy(md, scenario) ==
    [caller |-> md, stressed |-> apply_shocks(md, scenario)]

\* the table after the shocks of the first i scenarios
RECURSIVE ShockedThrough(_, _, _)
ShockedThrough(md, scenarios, i) ==
    IF i = 0 THEN md
    ELSE apply_shocks(ShockedThrough(md, scenarios, i - 1), scenarios[i])

\* one table is shocked by every scenario in turn
ScenarioRowCumulative(p, md, scenarios, i, base_npv) ==
    StressRow(p, ShockedThrough(md, scenarios, i - 1), scenarios[i], base_npv)

\* the i-th pass of stress_test's loop over the scenarios
ScenarioRow(p, md, scenarios, i, base_npv) ==
    StressRow(p, md, scenarios[i], base_npv)

\* a caller between calls remembers its last call and what it returned
Idle(last) == [op |-> "none", last |-> last]

Invoked(op, args, last) == [op |-> op, args |-> args, last |-> last]

InitEngine ==
    /\ portfolio \in EnginePortfolios
    /\ market_data \in EngineTables
    /\ call = [t \in Callers |-> Idle(NoCall)]
    /\ result = [t \in Callers |-> NoResult]
    /\ backtest = NoBacktest

EngineValuePortfolio(t) ==
    /\ call[t].op = "none"
    /\ call' = [call EXCEPT ![t] = Invoked("value_portfolio", <<>>, call[t].last)]
    /\ result' = [result EXCEPT ![t] = value_portfolio(portfolio, market_data)]
    /\ UNCHANGED <<portfolio, market_data, backtest>>

EngineCalculateVaR(t) ==
    /\ call[t].op = "none"
    /\ call' = [call EXCEPT ![t] =
                   Invoked("calculate_var", <<EngineVaRParams>>, call[t].last)]
    /\ result' = [result EXCEPT ![t] =
                     calculate_var(portfolio, market_data, EngineVaRParams.method,
                                   EngineVaRParams.confidence_levels,
                                   EngineVaRParams.window_days)]
    /\ UNCHANGED <<portfolio, market_data, backtest>>

EngineCalculateCVaR(t) ==
    /\ call[t].op = "none"
    /\ call' = [call EXCEPT ![t] =
                   Invoked("calculate_cvar", <<EngineVaRParams>>, call[t].last)]
    /\ result' = [result EXCEPT ![t] =
                     calculate_cvar(portfolio, market_data, EngineVaRParams)]
    /\ UNCHANGED <<portfolio, market_data, backtest>>

EngineComputeGreeks(t) ==
    /\ call[t].op = "none"
    /\ call' = [call EXCEPT ![t] = Invoked("compute_greeks", <<>>, call[t].last)]
    /\ result' = [result EXCEPT ![t] =
                     Returned(compute_greeks(portfolio, market_data))]
    /\ UNCHANGED <<portfolio, market_data, backtest>>

\* stress_test up to its loop: the base valuation
EngineStressTest(t) ==
    /\ call[t].op = "none"
    /\ \E scenarios \in EngineScenarioLists :
          LET base == calculate_npv(portfolio, market_data)
          IN  /\ call' = [call EXCEPT ![t] =
                             [op |-> "stress_test", args |-> <<scenarios>>,
                              last |-> call[t].last,
                              base_npv |-> IF base.status = "ok" THEN base.value
                                           ELSE NaN,
                              rows |-> <<>>]]
              /\ result' = [result EXCEPT ![t] =
                               IF base.status # "ok" THEN base
                               ELSE IF scenarios = <<>> THEN Returned(<<>>)
                               ELSE NoResult]
    /\ UNCHANGED <<portfolio, market_data, backtest>>

\* one pass of stress_test's loop; after the last pass the rows are returned
EngineStressScenario(t) ==
    /\ call[t].op = "stress_test"
    /\ result[t] = NoResult
    /\ LET scenarios == call[t].args[1]
           i == Len(call[t].rows) + 1
           rows == Append(call[t].rows,
                          ScenarioRow(portfolio, market_data, scenarios, i,
                                      call[t].base_npv))
       IN  /\ market_data' = ShockedCopy(market_data, scenarios[i]).caller
           /\ call' = [call EXCEPT ![t].rows = rows]
           /\ result' = [result EXCEPT ![t] =
                            IF i = Len(scenarios) THEN Returned(rows) ELSE NoResult]
    /\ UNCHANGED <<portfolio, backtest>>

\* the caller takes the result and is free to call again
CallerReturn(t) ==
    /\ result[t] # NoResult
    /\ call' = [call EXCEPT ![t] =
                   Idle([op |-> call[t].op, args |-> call[t].args,
                         result |-> result[t]])]
    /\ result' = [result EXCEPT ![t] = NoResult]
    /\ UNCHANGED <<portfolio, market_data, backtest>>

NextEngine ==
    \E t \in Callers :
        \/ EngineValuePortfolio(t)
        \/ EngineCalculateVaR(t)
        \/ EngineCalculateCVaR(t)
        \/ EngineComputeGreeks(t)
        \/ EngineStressTest(t)
        \/ EngineStressScenario(t)
        \/ CallerReturn(t)

SpecEngine == InitEngine /\ [][NextEngine]_vars

-----------------------------------------------------------------------------
(* The linearity check of StressTestingService.run on OREAdapter (SpecRun) *)

\* the risk port is OREAdapter: the two synthetic scenarios were answered by
\* its stress_test
OnOREAdapter ==
    call.linearity_answer
        = stress_test(portfolio, market_data, <<scenario_10, scenario_20>>)

\* a run with the linearity check, on OREAdapter, that returned
ValidatedRun ==
    /\ RunReturned
    /\ call.validate_linearity
    /\ OnOREAdapter

\* the last price of every held column is a number
LastPricesKnown ==
    \A s \in DOMAIN portfolio.positions \cap Columns(market_data) :
        ~IsNaN(market_data.columns[s][NumRows(market_data)])

\* C30 as stated: on OREAdapter, run with validate_linearity enabled reports
\* linearity_validated = true for every portfolio, table and scenario list for
\* which it returns.
C30_AsStated == ValidatedRun => result.value.linearity_validated = TRUE

\* What run reports on OREAdapter: linearity_validated = true when the last
\* price of every held column is a number; when such a price is missing (NaN)
\* the P&Ls of the synthetic scenarios are NaN and it reports false, with a
\* warning.
LinearOnOREAdapter ==
    ValidatedRun
    => IF LastPricesKnown
       THEN result.value.linearity_validated = TRUE
       ELSE /\ result.value.linearity_validated = FALSE
            /\ \E w \in Range(result.value.warnings) : w.kind = "Linearity check"

LinearOnOREAdapterReached ==
    /\ ValidatedRun
    /\ LastPricesKnown
    /\ DOMAIN portfolio.positions = {"A", "SPX"}
    /\ Columns(market_data) = {"A", "SPX"}
    /\ call.linearity_answer.value[1].pnl = <<-1, 10>>
    /\ call.linearity_answer.value[2].pnl = <<-1, 5>>
    /\ result.value.linearity_validated = TRUE
    /\ result.value.warnings = <<>>

-----------------------------------------------------------------------------
(* Properties of the engine shared by several callers (SpecEngine) *)

\* what a call returns when it is the only call made on the current objects
RunAlone(op, args) ==
    CASE op = "value_portfolio" -> value_portfolio(portfolio, market_data)
      [] op = "calculate_var" ->
             calculate_var(portfolio, market_data, args[1].method,
                           args[1].confidence_levels, args[1].window_days)
      [] op = "calculate_cvar" -> calculate_cvar(portfolio, market_data, args[1])
      [] op = "compute_greeks" -> Returned(compute_greeks(portfolio, market_data))
      [] op = "stress_test" -> stress_test(portfolio, market_data, args[1])

\* no step of an engine call changes the caller's Portfolio, table or scenarios
EngineFrame ==
    /\ portfolio' = portfolio
    /\ market_data' = market_data
    /\ \A t \in Callers :
          (call[t].op = "stress_test" /\ call'[t].op = "stress_test")
          => call'[t].args = call[t].args

\* a call that repeats the caller's last call returned what that call returned
RepeatedCalls ==
    \A t \in Callers :
        (/\ result[t] # NoResult
         /\ call[t].last.op = call[t].op
         /\ call[t].last.args = call[t].args)
        => result[t] = call[t].last.result

C27_EquityGreeks ==
    \A t \in Callers :
        (call[t].op = "compute_greeks" /\ result[t] # NoResult)
        => /\ result[t].status = "ok"
           /\ DOMAIN result[t].value = GreekNames
           /\ result[t].value["delta"] = Some(SumValues(portfolio.weights))
           /\ result[t].value["gamma"] = Some(Zero)
           /\ result[t].value["vega"] = Some(Zero)
           /\ \A g \in {"theta", "rho", "duration", "convexity"} :
                 result[t].value[g] = PyNone
           /\ \/ RLt(RAbs(RSub(result[t].value["delta"].value, One)),
                     WEIGHT_SUM_TOLERANCE)
              \/ RLt(RAbs(result[t].value["delta"].value), WEIGHT_SUM_TOLERANCE)

\* the Greeks of a portfolio whose weights sum to 1 + 5e-7
C27_Witness ==
    /\ call["c1"].op = "compute_greeks"
    /\ result["c1"].status = "ok"
    /\ DOMAIN portfolio.weights = {"A", "B"}
    /\ result["c1"].value["delta"] = Some(<<2000001, 2000000>>)

====
